---- MODULE Spec2Model ----
(***************************************************************************)
(* A model of the psychology-office application: the RequireAuth gate,     *)
(* the PDF export (both definitions of generateAttentionPDF) and the       *)
(* student search of StudentSearchModal.                                   *)
(*                                                                         *)
(* Strings are sequences of one-character strings, so that trimming,       *)
(* case conversion, URL encoding, wrapping and splitting are computed.     *)
(* The data pages (reminders, appointments, history) talk to the hosted     *)
(* store through round trips that the store applies one at a time.        *)
(* Each subsystem has its own specification (SpecAuth, SpecPdf, ...); the  *)
(* variables of the other subsystems stay at their initial values.         *)
(***************************************************************************)
EXTENDS Integers, Sequences, FiniteSets, TLC

VARIABLES
    \* ---- RequireAuth (src/src/components/RequireAuth.tsx) ----
    loading,        \* useState(true)
    user,           \* useState<Profile | null>(null)
    forbidden,      \* useState(false)
    gateMounted,    \* the RequireAuth instance is mounted
    allowedRoles,   \* the allowedRoles prop of the latest render
    pathname,       \* location.pathname
    search,         \* location.search
    checks,         \* the checkAuth calls started so far, oldest first
    href,           \* window.location.href once assigned, else NoHref
    \* ---- generateAttentionPDF (src/unnamed/part_000, src/src/lib/pdf.ts) ----
    variant,        \* which definition runs: "paginated" (part_000) or "legacy" (pdf.ts)
    att,            \* the attention record passed in
    pc,             \* position in generateAttentionPDF
    doc,            \* the jsPDF document and the cursor y
    sec,            \* the printSection call in progress (1..3)
    lines,          \* the wrapped lines of that section
    li,             \* index of the next line of lines.forEach
    totalPages,     \* const totalPages
    fp,             \* the footer loop's p
    saved,          \* the file names doc.save was called with
    \* ---- StudentSearchModal (src/test.js) ----
    isOpen,         \* the isOpen prop
    searchTerm,     \* useState('')
    students,       \* useState([]): the ids of the rows displayed
    searchLoading,  \* useState(false) (loading)
    timer,          \* the debounce timeouts scheduled and not cleared
    requests,       \* the queries searchStudents has issued, oldest first
    shownFrom,      \* history: the request whose rows `students` holds, or 0
    \* ---- psych_reminders: Home and Reminders (src/unnamed/part_001) ----
    remStore,       \* the psych_reminders table: id -> row
    remReqs,        \* the round trips to psych_reminders, oldest first
    homeList,       \* Home: useState<PsychReminder[]>([]) (reminders)
    pageList,       \* Reminders: useState<PsychReminder[]>([]) (reminders)
    \* ---- the local server (src/server.ts) ----
    db,             \* psychology.db: the four tables and their AUTOINCREMENT counters
    srvCalls,       \* number of API calls and restarts so far
    lastCall,       \* the latest API call and its response
    runs,           \* history: how many times the startup code has run
    lastSeeded,     \* history: rows the latest startup inserted, per table
    cancelledIds,   \* history: the appointments a PATCH has set to 'cancelled'
    \* ---- psych_appointments: Schedule and NewAttention (src/unnamed/part_001) ----
    apptStore,      \* the psych_appointments table, rows in insertion order
    attStore,       \* the psych_attentions rows inserted by NewAttention
    apptReqs,       \* the round trips of the two sessions, oldest first
    sess,           \* per browser session: page, Schedule state, NewAttention state
    \* ---- psych_attentions: History (src/unnamed/part_001) ----
    histOpen,       \* the History page is mounted
    histStore,      \* the psych_attentions table: the ids of the rows it holds
    histReqs,       \* History's round trips to psych_attentions, oldest first
    attentions,     \* useState<PsychAttention[]>([]): the fetched copies
    \* ---- App, RequireAuth and MainApp on one profile (src/unnamed/part_001) ----
    profile,        \* the row of the profiles table of the signed-in user
    appUser,        \* App: useState<Profile | null>(null), <<>> for null
    gateView,       \* what RequireAuth renders for this profile
    routes,         \* the routes MainApp has mounted, {} before it renders
    allAttentions,  \* the psych_attentions table: rows with their psychologist_id
    historyRows,    \* History: the rows its fetch returned, <<>> before
    \* ---- App: session handling and idle timeout (src/unnamed/part_001) ----
    appLoading,     \* App: useState(true) (loading)
    fetches,        \* the profile fetches of the handleSession calls, oldest first
    initialAsked,   \* getInitialSession has been answered
    events,         \* number of auth events delivered to the onAuthStateChange callback
    now,            \* Date.now(), in hours
    lastActivity,   \* localStorage[ACTIVITY_KEY]: <<>> when absent, else <<[t, own]>>
    armed,          \* the idle effect has its listeners and interval installed
    logout,         \* handleLogout: "no", "signingOut" or "done"
    appHref,        \* window.location.href once handleLogout assigned it, else <<>>
    signedOut,      \* history: the last session event handled carried no session
    idleLogout,     \* history: the idle checks that called handleLogout
    \* ---- Home (dashboard) appointments ----
    homeTable,      \* psych_appointments as the dashboard queries see it
    stats,          \* Home: the counters of the two cards
    appointments,   \* Home: the rows of the agenda query
    homeLoaded,     \* Home: fetchDashboardData has set its state
    \* ---- AuthCallback ----
    hash,           \* window.location.hash after the #, as its list of key=value pairs
    hashInUrl,      \* the hash is still part of the URL
    cbPc,           \* handleCallback: "start", "setSession" (awaiting) or "done"
    setSessionCalls,\* calls of supabase.auth.setSession
    sessionResult,  \* how setSession ended: "none", "ok", "error" or "rejected"
    navigated,      \* calls of navigate, in order
    cbHref          \* assignments to window.location.href, in order

authVars == <<loading, user, forbidden, gateMounted, allowedRoles, pathname,
              search, checks, href>>

pdfVars == <<variant, att, pc, doc, sec, lines, li, totalPages, fp, saved>>

searchVars == <<isOpen, searchTerm, students, searchLoading, timer, requests,
                shownFrom>>

remVars == <<remStore, remReqs, homeList, pageList>>

srvVars == <<db, srvCalls, lastCall, runs, lastSeeded, cancelledIds>>

apptVars == <<apptStore, attStore, apptReqs, sess>>

histVars == <<histOpen, histStore, histReqs, attentions>>

roleVars == <<profile, appUser, gateView, routes, allAttentions, historyRows>>

appVars == <<appLoading, fetches, initialAsked, events, now, lastActivity, armed, logout, appHref, signedOut, idleLogout>>

homeVars == <<homeTable, stats, appointments, homeLoaded>>

cbVars == <<hash, hashInUrl, cbPc, setSessionCalls, sessionResult, navigated, cbHref>>

vars == <<authVars, pdfVars, searchVars, remVars, srvVars, apptVars, histVars, roleVars, appVars, homeVars, cbVars>>

nonAuthVars == <<pdfVars, searchVars, remVars, srvVars, apptVars, histVars, roleVars, appVars, homeVars, cbVars>>
nonPdfVars == <<authVars, searchVars, remVars, srvVars, apptVars, histVars, roleVars, appVars, homeVars, cbVars>>
nonSearchVars == <<authVars, pdfVars, remVars, srvVars, apptVars, histVars, roleVars, appVars, homeVars, cbVars>>
nonRemVars == <<authVars, pdfVars, searchVars, srvVars, apptVars, histVars, roleVars, appVars, homeVars, cbVars>>
nonSrvVars == <<authVars, pdfVars, searchVars, remVars, apptVars, histVars, roleVars, appVars, homeVars, cbVars>>
nonApptVars == <<authVars, pdfVars, searchVars, remVars, srvVars, histVars, roleVars, appVars, homeVars, cbVars>>
nonHistVars == <<authVars, pdfVars, searchVars, remVars, srvVars, apptVars, roleVars, appVars, homeVars, cbVars>>
nonRoleVars == <<authVars, pdfVars, searchVars, remVars, srvVars, apptVars, histVars, appVars, homeVars, cbVars>>
\* App sets appUser of roleVars; its actions name the rest of roleVars.
nonAppVars == <<authVars, pdfVars, searchVars, remVars, srvVars, apptVars, histVars, homeVars, cbVars>>
nonHomeVars == <<authVars, pdfVars, searchVars, remVars, srvVars, apptVars, histVars, roleVars, appVars, cbVars>>
nonCbVars == <<authVars, pdfVars, searchVars, remVars, srvVars, apptVars, histVars, roleVars, appVars, homeVars>>

\* Absent values, one per type (TLC compares only like with like).
NoRole == <<"undefined">>
NoProfile == [kind |-> "none", role |-> NoRole]
NoHref == <<>>

(***************************************************************************)
(* Strings                                                                 *)
(***************************************************************************)
LowerLetters == <<"a","b","c","d","e","f","g","h","i","j","k","l","m",
                  "n","o","p","q","r","s","t","u","v","w","x","y","z">>
UpperLetters == <<"A","B","C","D","E","F","G","H","I","J","K","L","M",
                  "N","O","P","Q","R","S","T","U","V","W","X","Y","Z">>

\* The white space of String.prototype.trim and of the regular expression \s.
IsSpace(c) == c \in {" ", "\t", "\n"}

\* lower-case letter -> upper-case letter, and back
upperOf ==
    [c \in {LowerLetters[i] : i \in 1..Len(LowerLetters)} |->
        UpperLetters[CHOOSE i \in 1..Len(LowerLetters) : LowerLetters[i] = c]]
lowerOf ==
    [c \in {UpperLetters[i] : i \in 1..Len(UpperLetters)} |->
        LowerLetters[CHOOSE i \in 1..Len(UpperLetters) : UpperLetters[i] = c]]

toUpperCaseChar(c) == IF c \in DOMAIN upperOf THEN upperOf[c] ELSE c

toLowerCaseChar(c) == IF c \in DOMAIN lowerOf THEN lowerOf[c] ELSE c

toUpperCase(s) == [i \in 1..Len(s) |-> toUpperCaseChar(s[i])]

toLowerCase(s) == [i \in 1..Len(s) |-> toLowerCaseChar(s[i])]

RECURSIVE trimStart(_)
trimStart(s) ==
    IF s # <<>> /\ IsSpace(Head(s)) THEN trimStart(Tail(s)) ELSE s

RECURSIVE trimEnd(_)
trimEnd(s) ==
    IF s # <<>> /\ IsSpace(s[Len(s)]) THEN trimEnd(SubSeq(s, 1, Len(s) - 1)) ELSE s

trim(s) == trimEnd(trimStart(s))

RECURSIVE Flatten(_)
Flatten(ss) == IF ss = <<>> THEN <<>> ELSE Head(ss) \o Flatten(Tail(ss))

(***************************************************************************)
(* RequireAuth                                                             *)
(***************************************************************************)
\* UserRole values the application passes as allowedRoles (types.ts).
PSICOLOGA == <<"p","s","i","c","o","l","o","g","a">>
ADMIN == <<"a","d","m","i","n">>
SUPERVISOR == <<"s","u","p","e","r","v","i","s","o","r">>
DOCENTE == <<"d","o","c","e","n","t","e">>

\* The allowedRoles arrays a render can pass (App passes the first one).
AllowedRoleLists ==
    { <<PSICOLOGA, ADMIN, SUPERVISOR>>, <<ADMIN>> }

\* The role column of the profile row, as the store may hold it.
ProfileRoles ==
    { NoRole, <<>>, toUpperCase(PSICOLOGA),
      <<" ">> \o <<"P">> \o Tail(PSICOLOGA) \o <<" ", "\t">>,
      DOCENTE, <<"a","d","m","i","n","x">> }

\* What `await supabase.from('profiles')...single()` can resolve to.
ProfileResults ==
    { [kind |-> "error", role |-> NoRole], [kind |-> "norow", role |-> NoRole] }
    \cup { [kind |-> "profile", role |-> r] : r \in ProfileRoles }

Origin == <<"h",":","/","/","o">>
Pathnames == { <<"/">>, <<"/","n","e","w">> }
Searches == { <<>>, <<"?","q","=","a","&","r","=","b"," ","c">> }
PortalUrl == <<"VITE_PORTAL_URL">>

\* encodeURIComponent leaves letters, digits and - _ . ! ~ * ' ( ) alone and
\* escapes every other character as the %XX of its UTF-8 byte.
UriUnreserved(c) ==
    \/ \E i \in 1..Len(LowerLetters) : c \in {LowerLetters[i], UpperLetters[i]}
    \/ c \in {"0","1","2","3","4","5","6","7","8","9"}
    \/ c \in {"-","_",".","!","~","*","'","(",")"}

PercentCode(c) ==
    CASE c = ":" -> <<"%","3","A">>
      [] c = "/" -> <<"%","2","F">>
      [] c = "?" -> <<"%","3","F">>
      [] c = "=" -> <<"%","3","D">>
      [] c = "&" -> <<"%","2","6">>
      [] c = " " -> <<"%","2","0">>
      [] c = "%" -> <<"%","2","5">>

encodeIdentity(s) == s

encodeURIComponent(s) ==
    Flatten([i \in 1..Len(s) |->
        IF UriUnreserved(s[i]) THEN <<s[i]>> ELSE PercentCode(s[i])])

\* the login URL of RequireAuth.tsx line 28
loginRedirect(path, query) ==
    PortalUrl \o <<"?view=login&returnTo=">>
        \o encodeURIComponent(Origin \o path \o query)

\* (userProfile.role || '').toUpperCase().trim()
normalizeRole(role) == trim(toUpperCase(IF role = NoRole THEN <<>> ELSE role))

\* allowedRoles.some(role => role.toUpperCase().trim() === userRole)
isAllowed(role, allowed) ==
    \E i \in 1..Len(allowed) :
        trim(toUpperCase(allowed[i])) = normalizeRole(role)

\* A checkAuth call right after the effect started it.
newCheck(allowed, path, query) ==
    [pc |-> "getSession", isMounted |-> TRUE, allowedRoles |-> allowed,
     pathname |-> path, search |-> query, outcome |-> "pending"]

\* The effect's cleanup: isMounted = false in the closure of the running check.
cleanup(cs) ==
    [i \in 1..Len(cs) |-> [cs[i] EXCEPT !.isMounted = FALSE]]

\* What the component renders (lines 75-131).
View ==
    IF loading THEN "spinner"
    ELSE IF forbidden THEN "403"
    ELSE "children"

MaxChecks == 2

\* A freshly mounted gate whose effect has just started the first check.
InitGate ==
    /\ loading = TRUE
    /\ user = NoProfile
    /\ forbidden = FALSE
    /\ gateMounted = TRUE
    /\ allowedRoles \in AllowedRoleLists
    /\ pathname \in Pathnames
    /\ search \in Searches
    /\ checks = <<newCheck(allowedRoles, pathname, search)>>
    /\ href = NoHref

\* The gate as the other specifications leave it.
IdleGate ==
    /\ loading = TRUE
    /\ user = NoProfile
    /\ forbidden = FALSE
    /\ gateMounted = TRUE
    /\ allowedRoles = <<PSICOLOGA, ADMIN, SUPERVISOR>>
    /\ pathname = <<"/">>
    /\ search = <<>>
    /\ checks = <<>>
    /\ href = NoHref

\* The page is still there: no navigation away has been requested.
PageAlive == href = NoHref

\* In-app navigation to another pathname: the effect is cleaned up and re-run.
Navigate(p, q) ==
    /\ PageAlive /\ gateMounted
    /\ Len(checks) < MaxChecks
    /\ p # pathname
    /\ pathname' = p
    /\ search' = q
    /\ checks' = Append(cleanup(checks), newCheck(allowedRoles, p, q))
    /\ UNCHANGED <<loading, user, forbidden, gateMounted, allowedRoles, href>>
    /\ UNCHANGED nonAuthVars

\* The parent renders again and passes a new allowedRoles array.
Rerender(a) ==
    /\ PageAlive /\ gateMounted
    /\ Len(checks) < MaxChecks
    /\ allowedRoles' = a
    /\ checks' = Append(cleanup(checks), newCheck(a, pathname, search))
    /\ UNCHANGED <<loading, user, forbidden, gateMounted, pathname, search, href>>
    /\ UNCHANGED nonAuthVars

Unmount ==
    /\ PageAlive /\ gateMounted
    /\ gateMounted' = FALSE
    /\ checks' = cleanup(checks)
    /\ UNCHANGED <<loading, user, forbidden, allowedRoles, pathname, search, href>>
    /\ UNCHANGED nonAuthVars

\* `await supabase.auth.getSession()` resolves (lines 23-31).
GetSessionResolved(c, s) ==
    /\ PageAlive
    /\ checks[c].pc = "getSession"
    /\ IF s = "none"
       THEN /\ checks' = [checks EXCEPT ![c].pc = "done", ![c].outcome = "nosession"]
            /\ href' = IF checks[c].isMounted
                       THEN loginRedirect(checks[c].pathname, checks[c].search)
                       ELSE href
       ELSE /\ checks' = [checks EXCEPT ![c].pc = "profile"]
            /\ href' = href
    /\ UNCHANGED <<loading, user, forbidden, gateMounted, allowedRoles,
                   pathname, search>>
    /\ UNCHANGED nonAuthVars

\* The profile query resolves in a checkAuth that sets the state without
\* looking at isMounted.
ProfileResolvedUnguarded(c, r) ==
    /\ PageAlive
    /\ checks[c].pc = "profile"
    /\ checks' = [checks EXCEPT ![c].pc = "done", ![c].outcome =
                     IF r.kind = "profile" THEN "profile" ELSE "failed"]
    /\ IF r.kind # "profile"
       THEN /\ loading' = FALSE
            /\ UNCHANGED <<user, forbidden>>
       ELSE IF ~isAllowed(r.role, checks[c].allowedRoles)
       THEN /\ forbidden' = TRUE
            /\ loading' = FALSE
            /\ user' = user
       ELSE /\ user' = r
            /\ loading' = FALSE
            /\ forbidden' = forbidden
    /\ UNCHANGED <<gateMounted, allowedRoles, pathname, search, href>>
    /\ UNCHANGED nonAuthVars

\* The profile query resolves (lines 33-56).
ProfileResolved(c, r) ==
    /\ PageAlive
    /\ checks[c].pc = "profile"
    /\ checks' = [checks EXCEPT ![c].pc = "done", ![c].outcome =
                     IF r.kind = "profile" THEN "profile" ELSE "failed"]
    /\ IF r.kind # "profile"
       THEN /\ loading' = IF checks[c].isMounted THEN FALSE ELSE loading
            /\ UNCHANGED <<user, forbidden>>
       ELSE IF ~checks[c].isMounted
       THEN UNCHANGED <<loading, user, forbidden>>
       ELSE IF ~isAllowed(r.role, checks[c].allowedRoles)
       THEN /\ forbidden' = TRUE
            /\ loading' = FALSE
            /\ user' = user
       ELSE /\ user' = r
            /\ loading' = FALSE
            /\ forbidden' = forbidden
    /\ UNCHANGED <<gateMounted, allowedRoles, pathname, search, href>>
    /\ UNCHANGED nonAuthVars

\* getSession or the profile query rejects: the catch of lines 57-60.
LookupThrew(c) ==
    /\ PageAlive
    /\ checks[c].pc \in {"getSession", "profile"}
    /\ checks' = [checks EXCEPT ![c].pc = "done", ![c].outcome = "failed"]
    /\ loading' = IF checks[c].isMounted THEN FALSE ELSE loading
    /\ UNCHANGED <<user, forbidden, gateMounted, allowedRoles, pathname,
                   search, href>>
    /\ UNCHANGED nonAuthVars

NextAuth ==
    \/ \E p \in Pathnames, q \in Searches : Navigate(p, q)
    \/ \E a \in AllowedRoleLists : Rerender(a)
    \/ Unmount
    \/ \E c \in DOMAIN checks, s \in {"none", "user"} : GetSessionResolved(c, s)
    \/ \E c \in DOMAIN checks, r \in ProfileResults : ProfileResolved(c, r)
    \/ \E c \in DOMAIN checks : LookupThrew(c)


(***************************************************************************)
(* generateAttentionPDF                                                    *)
(*                                                                         *)
(* Lengths are in whole millimetres.  A character of a free text stands    *)
(* for a run of text CharWidth mm wide, so that a few characters wrap to   *)
(* several lines; the position where autoTable ends (finalY) depends on    *)
(* how the cells wrap and is an input.                                     *)
(***************************************************************************)
pageW == 210
pageH == 297
marginL == 16
marginR == 16
marginB == 28
contentW == pageW - marginL - marginR
legacyWrapW == 180

CharWidth == 89
MaxTextLen == 4

NoText == <<"undefined">>
SampleText == <<"a","b","c","d","e","f","g","h">>
Texts == {NoText} \cup {SubSeq(SampleText, 1, n) : n \in 0..MaxTextLen}

StudentNames ==
    { <<"A","n","a">>, <<"A"," ","\t","B"," ","C">>, <<" ","A","\n">> }
ValidDate == <<"2","0","2","4","-","0","5","-","1","7">>
Dates == { ValidDate, <<"2","0","2","4","-","1","3","-","4","0">>, <<>> }

Attentions ==
    [student_name : StudentNames, date : Dates, reason : Texts,
     observations : Texts, recommendations : Texts]

\* lastAutoTable.finalY: where the metadata table ends on the first page.
FinalYs == {110, 190, 246, 262}

Digits == <<"0","1","2","3","4","5","6","7","8","9">>
IsDigit(c) == \E i \in 1..Len(Digits) : Digits[i] = c
DigitValue(c) == (CHOOSE i \in 1..Len(Digits) : Digits[i] = c) - 1

\* new Date(s) is a valid date for an ISO yyyy-mm-dd string; format() throws
\* a RangeError on an invalid one.
isValidDate(s) ==
    /\ Len(s) = 10
    /\ s[5] = "-" /\ s[8] = "-"
    /\ \A i \in {1, 2, 3, 4, 6, 7, 9, 10} : IsDigit(s[i])
    /\ LET mm == 10 * DigitValue(s[6]) + DigitValue(s[7])
           dd == 10 * DigitValue(s[9]) + DigitValue(s[10])
       IN mm \in 1..12 /\ dd \in 1..31

RECURSIVE chunks(_, _)
chunks(s, n) ==
    IF Len(s) <= n THEN <<s>>
    ELSE <<SubSeq(s, 1, n)>> \o chunks(SubSeq(s, n + 1, Len(s)), n)

\* doc.splitTextToSize(text, width) for a text without white space: the text
\* is cut into pieces that fit the width; the empty text gives one empty line.
splitTextToSize(t, width) == chunks(t, width \div CharWidth)

orDashWhenMissing(t) == IF t = NoText THEN <<"-">> ELSE t

\* text || "-"
orDash(t) == IF t = NoText \/ t = <<>> THEN <<"-">> ELSE t

sectionField(a, k) ==
    CASE k = 1 -> a.reason
      [] k = 2 -> a.observations
      [] k = 3 -> a.recommendations

sectionTitle(k) ==
    CASE k = 1 -> <<"Motivo de Consulta:">>
      [] k = 2 -> <<"Observaciones:">>
      [] k = 3 -> <<"Recomendaciones / Plan de Accion:">>

\* the gapBefore argument of the three printSection calls
gapBefore(k) == IF k = 1 THEN 6 ELSE 8

replaceEveryWhitespace(s) ==
    [i \in 1..Len(s) |-> IF IsSpace(s[i]) THEN "_" ELSE s[i]]

\* s.replace(/\s+/g, "_")
RECURSIVE replaceWhitespaceRuns(_)
replaceWhitespaceRuns(s) ==
    IF s = <<>> THEN <<>>
    ELSE IF IsSpace(Head(s)) THEN <<"_">> \o replaceWhitespaceRuns(trimStart(s))
    ELSE <<Head(s)>> \o replaceWhitespaceRuns(Tail(s))

\* the argument of doc.save
fileName(a) ==
    <<"Atencion_">> \o replaceWhitespaceRuns(a.student_name) \o <<"_">>
        \o a.date \o <<".pdf">>

\* doc.text(str, x, yy) and friends on the current page
draw(d, kind, str, yy) ==
    [d EXCEPT !.draws = Append(@, [page |-> d.page, y |-> yy, kind |-> kind,
                                   text |-> str])]

newPage(d) ==
    LET added == [d EXCEPT !.pages = @ + 1, !.page = d.pages + 1, !.y = 14]
        headed == draw(added, "continuation",
                       <<"Registro de Atencion Psicologica - continuacion">>,
                       added.y)
    IN [headed EXCEPT !.y = @ + 8]

checkPageNever(d, needed) == d

checkPage(d, needed) ==
    IF d.y + needed > pageH - marginB THEN newPage(d) ELSE d

emptyDoc == [y |-> 0, page |-> 1, pages |-> 1, draws |-> <<>>, stamps |-> <<>>]

InitPdf ==
    /\ variant \in {"paginated", "legacy"}
    /\ att \in Attentions
    /\ pc = "start"
    /\ doc = emptyDoc
    /\ sec = 1
    /\ lines = <<>>
    /\ li = 1
    /\ totalPages = 0
    /\ fp = 1
    /\ saved = <<>>

\* No export is running.
IdlePdf ==
    /\ variant = "paginated"
    /\ att = [student_name |-> <<>>, date |-> <<>>, reason |-> NoText,
              observations |-> NoText, recommendations |-> NoText]
    /\ pc = "idle"
    /\ doc = emptyDoc
    /\ sec = 1
    /\ lines = <<>>
    /\ li = 1
    /\ totalPages = 0
    /\ fp = 1
    /\ saved = <<>>

\* The same step with the date put into the table as the raw string, without
\* format(new Date(...)).
BuildTableRawDate(fy) ==
    /\ pc = "start"
    /\ LET titleY == IF variant = "paginated" THEN 52 ELSE 55
           headed == draw(doc, "header", <<"REGISTRO DE ATENCION PSICOLOGICA">>, titleY)
           tabled == draw(headed, "table", <<>>, fy)
       IN IF variant = "paginated"
          THEN pc' = "section" /\ doc' = [tabled EXCEPT !.y = fy + 4]
          ELSE pc' = "legacyText" /\ doc' = [tabled EXCEPT !.y = IF fy = 0 THEN 100 ELSE fy]
    /\ UNCHANGED <<variant, att, sec, lines, li, totalPages, fp, saved>>
    /\ UNCHANGED nonPdfVars

\* Header, document title and the autoTable call with the formatted date
\* (part_000 lines 78-120; pdf.ts lines 24-56).
BuildTable(fy) ==
    /\ pc = "start"
    /\ LET titleY == IF variant = "paginated" THEN 52 ELSE 55
           headed == draw(doc, "header", <<"REGISTRO DE ATENCION PSICOLOGICA">>, titleY)
           tabled == draw(headed, "table", <<>>, fy)
       IN IF ~isValidDate(att.date)
          THEN pc' = "thrown" /\ doc' = headed
          ELSE IF variant = "paginated"
          THEN pc' = "section" /\ doc' = [tabled EXCEPT !.y = fy + 4]
          ELSE pc' = "legacyText" /\ doc' = [tabled EXCEPT !.y = IF fy = 0 THEN 100 ELSE fy]
    /\ UNCHANGED <<variant, att, sec, lines, li, totalPages, fp, saved>>
    /\ UNCHANGED nonPdfVars

\* printSection up to the forEach (part_000 lines 56-67).
PrintSectionTitle ==
    /\ pc = "section"
    /\ LET moved == [doc EXCEPT !.y = @ + gapBefore(sec)]
           checked == checkPage(moved, 12)
           titled == draw(checked, "title", sectionTitle(sec), checked.y)
       IN doc' = [titled EXCEPT !.y = @ + 6]
    /\ lines' = splitTextToSize(orDash(sectionField(att, sec)), contentW)
    /\ li' = 1
    /\ pc' = "lines"
    /\ UNCHANGED <<variant, att, sec, totalPages, fp, saved>>
    /\ UNCHANGED nonPdfVars

\* PrintLine, except that a line that needs a new page is not drawn on it.
PrintLineLostAtBreak ==
    /\ pc = "lines"
    /\ li <= Len(lines)
    /\ LET checked == checkPage(doc, 7)
           drawn == draw(checked, "line", lines[li], checked.y)
       IN doc' = IF checked.pages = doc.pages THEN [drawn EXCEPT !.y = @ + 7]
                 ELSE checked
    /\ li' = li + 1
    /\ IF li < Len(lines) THEN pc' = "lines" /\ sec' = sec
       ELSE IF sec < 3 THEN pc' = "section" /\ sec' = sec + 1
       ELSE pc' = "signature" /\ sec' = sec
    /\ UNCHANGED <<variant, att, lines, totalPages, fp, saved>>
    /\ UNCHANGED nonPdfVars

\* One iteration of lines.forEach (part_000 lines 68-72); after the last
\* one the next printSection call, or the signature, follows.
PrintLine ==
    /\ pc = "lines"
    /\ li <= Len(lines)
    /\ LET checked == checkPage(doc, 7)
           drawn == draw(checked, "line", lines[li], checked.y)
       IN doc' = [drawn EXCEPT !.y = @ + 7]
    /\ li' = li + 1
    /\ IF li < Len(lines) THEN pc' = "lines" /\ sec' = sec
       ELSE IF sec < 3 THEN pc' = "section" /\ sec' = sec + 1
       ELSE pc' = "signature" /\ sec' = sec
    /\ UNCHANGED <<variant, att, lines, totalPages, fp, saved>>
    /\ UNCHANGED nonPdfVars

\* The signature block drawn at the cursor without checkPage(30).
SignatureUnchecked ==
    /\ pc = "signature"
    /\ LET moved == [doc EXCEPT !.y = @ + 12]
           ruled == draw(moved, "sigrule", <<>>, moved.y)
           labelled == draw(ruled, "siglabel", <<"Firma del Profesional">>, moved.y + 5)
           named == draw(labelled, "signame", <<"psychologist_name">>, moved.y + 10)
       IN doc' = [named EXCEPT !.y = moved.y + 10]
    /\ pc' = "count"
    /\ UNCHANGED <<variant, att, sec, lines, li, totalPages, fp, saved>>
    /\ UNCHANGED nonPdfVars

\* The signature block (part_000 lines 132-145).
Signature ==
    /\ pc = "signature"
    /\ LET moved == [doc EXCEPT !.y = @ + 12]
           checked == checkPage(moved, 30)
           ruled == draw(checked, "sigrule", <<>>, checked.y)
           labelled == draw(ruled, "siglabel", <<"Firma del Profesional">>, checked.y + 5)
           named == draw(labelled, "signame", <<"psychologist_name">>, checked.y + 10)
       IN doc' = [named EXCEPT !.y = checked.y + 10]
    /\ pc' = "count"
    /\ UNCHANGED <<variant, att, sec, lines, li, totalPages, fp, saved>>
    /\ UNCHANGED nonPdfVars

getNumberOfPagesLessOne(d) == d.pages - 1

getNumberOfPages(d) == d.pages

\* const totalPages = getNumberOfPages(); p = 1 (part_000 lines 150-151).
ReadPageCount ==
    /\ pc = "count"
    /\ totalPages' = getNumberOfPages(doc)
    /\ fp' = 1
    /\ pc' = "footer"
    /\ UNCHANGED <<variant, att, doc, sec, lines, li, saved>>
    /\ UNCHANGED nonPdfVars

\* One iteration of the footer loop (part_000 lines 151-163).
Footer ==
    /\ pc = "footer"
    /\ fp <= totalPages
    /\ doc' = [doc EXCEPT !.page = fp,
                          !.stamps = Append(@, [page |-> fp, p |-> fp, n |-> totalPages])]
    /\ fp' = fp + 1
    /\ UNCHANGED <<variant, att, pc, sec, lines, li, totalPages, saved>>
    /\ UNCHANGED nonPdfVars

\* doc.save (part_000 line 165).
Save ==
    /\ pc = "footer"
    /\ fp > totalPages
    /\ saved' = Append(saved, fileName(att))
    /\ pc' = "done"
    /\ UNCHANGED <<variant, att, doc, sec, lines, li, totalPages, fp>>
    /\ UNCHANGED nonPdfVars

\* pdf.ts lines 58-76: three titles and three doc.text(array) blocks at
\* offsets computed from finalY, on the one page there is.  An undefined
\* text makes splitTextToSize throw or is rendered as the word "undefined",
\* depending on the jsPDF release.
LegacyText(throws) ==
    /\ pc = "legacyText"
    /\ LET finalY == doc.y
           wrap(t) == splitTextToSize(IF t = NoText THEN <<"undefined">> ELSE t,
                                      legacyWrapW)
           reasonHeight == Len(wrap(att.reason)) * 7
           obsHeight == Len(wrap(att.observations)) * 7
           block(d, k, yy) == draw(d, "block", Flatten(wrap(sectionField(att, k))), yy)
           d1 == draw(doc, "title", sectionTitle(1), finalY + 15)
           d2 == block(d1, 1, finalY + 22)
           d3 == draw(d2, "title", sectionTitle(2), finalY + 25 + reasonHeight)
           d4 == block(d3, 2, finalY + 32 + reasonHeight)
           d5 == draw(d4, "title", sectionTitle(3), finalY + 35 + reasonHeight + obsHeight)
           d6 == block(d5, 3, finalY + 42 + reasonHeight + obsHeight)
           missing == \E k \in 1..3 : sectionField(att, k) = NoText
       IN IF missing /\ throws
          THEN pc' = "thrown" /\ doc' = doc
          ELSE pc' = "legacySignature" /\ doc' = d6
    /\ UNCHANGED <<variant, att, sec, lines, li, totalPages, fp, saved>>
    /\ UNCHANGED nonPdfVars

\* pdf.ts lines 79-86: the signature at fixed offsets from the page bottom,
\* and doc.save.
LegacySignatureAndSave ==
    /\ pc = "legacySignature"
    /\ LET ruled == draw(doc, "sigrule", <<>>, pageH - 40)
           labelled == draw(ruled, "siglabel", <<"Firma del Profesional">>, pageH - 35)
       IN doc' = draw(labelled, "signame", <<"psychologist_name">>, pageH - 30)
    /\ saved' = Append(saved, fileName(att))
    /\ pc' = "done"
    /\ UNCHANGED <<variant, att, sec, lines, li, totalPages, fp>>
    /\ UNCHANGED nonPdfVars

NextPdf ==
    \/ \E fy \in FinalYs : BuildTable(fy)
    \/ PrintSectionTitle
    \/ PrintLine
    \/ Signature
    \/ ReadPageCount
    \/ Footer
    \/ Save
    \/ \E throws \in BOOLEAN : LegacyText(throws)
    \/ LegacySignatureAndSave

(***************************************************************************)
(* StudentSearchModal                                                      *)
(***************************************************************************)
ResultLimit == 10
MaxRequests == 2

\* The ids of the rows of the students table.
StudentIds == 1..12

\* The rows of the students table: 1 and 3 have "an" only, 2 has "go" only,
\* 4 has both in one column, the others have one in each column.
first_name(i) ==
    CASE i = 1 -> <<"A","n">>
      [] i = 2 -> <<"L","u">>
      [] i = 3 -> <<"A","n">>
      [] i = 4 -> <<"G","o","a","n">>
      [] OTHER -> <<"A","n">>

last_name(i) ==
    CASE i = 1 -> <<"L","o">>
      [] i = 2 -> <<"G","o">>
      [] i = 3 -> <<"R","u">>
      [] i = 4 -> <<"X","i">>
      [] OTHER -> <<"G","o">>

\* What the user can have typed into the input.
Terms ==
    { <<>>, <<"a">>, <<"a","n">>,
      <<"a","n"," ","g","o">>,
      <<" ","G","O"," ","\t","a","n"," ">> }

\* s.split(/\s+/): the pieces between the runs of white space (an empty
\* piece at a leading or trailing run included).
RECURSIVE splitOnWhitespace(_, _)
splitOnWhitespace(s, piece) ==
    IF s = <<>> THEN <<piece>>
    ELSE IF IsSpace(Head(s)) THEN <<piece>> \o splitOnWhitespace(trimStart(s), <<>>)
    ELSE splitOnWhitespace(Tail(s), Append(piece, Head(s)))

\* searchTerm.trim().split(/\s+/).filter(w => w.length > 0)
words(term) ==
    SelectSeq(splitOnWhitespace(trim(term), <<>>), LAMBDA w : Len(w) > 0)

\* `first_name.ilike.%word%,last_name.ilike.%word%`
orFilter(word) ==
    << [column |-> "first_name", pattern |-> word],
       [column |-> "last_name", pattern |-> word] >>

oneOrOfAllWords(term) ==
    IF words(term) = <<>> THEN <<>>
    ELSE << Flatten([k \in 1..Len(words(term)) |-> orFilter(words(term)[k])]) >>

\* words.forEach(word => { query = query.or(...) }): every .or() call
\* appends one more `or=(...)` parameter to the request.
buildQuery(term) ==
    [k \in 1..Len(words(term)) |-> orFilter(words(term)[k])]

contains(s, w) ==
    \E i \in 0..(Len(s) - Len(w)) : SubSeq(s, i + 1, i + Len(w)) = w

\* column ILIKE '%pattern%'
ilike(value, pattern) == contains(toLowerCase(value), toLowerCase(pattern))

columnOf(i, column) ==
    IF column = "first_name" THEN first_name(i) ELSE last_name(i)

\* The rows the store selects for a request: a row must satisfy every
\* parameter of the request (PostgREST combines the filters given as
\* separate parameters with AND); an or=(a,b) parameter is satisfied when
\* one of its conditions is.
selectedRows(params) ==
    { i \in StudentIds :
        \A k \in 1..Len(params) :
            \E c \in 1..Len(params[k]) :
                ilike(columnOf(i, params[k][c].column), params[k][c].pattern) }

\* The sets obtained from rows by leaving k of them out.
RECURSIVE leavingOut(_, _)
leavingOut(rows, k) ==
    IF k = 0 THEN {rows}
    ELSE UNION { leavingOut(rows \ {x}, k - 1) : x \in rows }

\* .limit(10): any ResultLimit of the selected rows (no order is asked for).
limited(rows) ==
    IF Cardinality(rows) <= ResultLimit THEN {rows}
    ELSE leavingOut(rows, Cardinality(rows) - ResultLimit)

\* setTimeout(..., 300), line 66
DebounceMs == 300

\* timer is the set of timeouts that are scheduled and not cleared; each
\* carries the searchTerm its callback closes over and the time left.
NoTimer == {}
scheduled(term) == {[term |-> term, left |-> DebounceMs]}

\* The modal right after it is mounted closed: the debounce effect has run.
InitSearch ==
    /\ isOpen = FALSE
    /\ searchTerm = <<>>
    /\ students = {}
    /\ searchLoading = FALSE
    /\ timer = scheduled(<<>>)
    /\ requests = <<>>
    /\ shownFrom = 0

IdleSearch ==
    /\ isOpen = FALSE
    /\ searchTerm = <<>>
    /\ students = {}
    /\ searchLoading = FALSE
    /\ timer = NoTimer
    /\ requests = <<>>
    /\ shownFrom = 0

\* isOpen becomes true: the first effect resets term and list (lines 52-57);
\* a changed term re-runs the debounce effect.
OpenModal ==
    /\ ~isOpen
    /\ isOpen' = TRUE
    /\ searchTerm' = <<>>
    /\ students' = {}
    /\ shownFrom' = 0
    /\ timer' = IF searchTerm # <<>> THEN scheduled(<<>>) ELSE timer
    /\ UNCHANGED <<searchLoading, requests>>
    /\ UNCHANGED nonSearchVars

CloseModal ==
    /\ isOpen
    /\ isOpen' = FALSE
    /\ UNCHANGED <<searchTerm, students, searchLoading, timer, requests, shownFrom>>
    /\ UNCHANGED nonSearchVars

\* onChange without the effect's cleanup: the earlier timeout stays scheduled.
TypeTermNoClear(t) ==
    /\ isOpen
    /\ t # searchTerm
    /\ searchTerm' = t
    /\ timer' = timer \cup scheduled(t)
    /\ UNCHANGED <<isOpen, students, searchLoading, requests, shownFrom>>
    /\ UNCHANGED nonSearchVars

\* onChange: setSearchTerm; the effect's cleanup clears the timeout and the
\* effect schedules a new one (lines 59-69, 121).
TypeTerm(t) ==
    /\ isOpen
    /\ t # searchTerm
    /\ searchTerm' = t
    /\ timer' = scheduled(t)
    /\ UNCHANGED <<isOpen, students, searchLoading, requests, shownFrom>>
    /\ UNCHANGED nonSearchVars

\* The delay of the scheduled timeouts passes with no change of the term.
Elapse ==
    /\ \E tm \in timer : tm.left > 0
    /\ timer' = {[tm EXCEPT !.left = 0] : tm \in timer}
    /\ UNCHANGED <<isOpen, searchTerm, students, searchLoading, requests, shownFrom>>
    /\ UNCHANGED nonSearchVars

\* The timeout fires after 300 ms (lines 60-66): searchStudents up to its
\* await (lines 72-88), or the list is cleared.
TimerFires(tm) ==
    /\ tm \in timer
    /\ tm.left = 0
    /\ timer' = timer \ {tm}
    /\ IF Len(tm.term) >= 2
       THEN /\ Len(requests) < MaxRequests
            /\ searchLoading' = TRUE
            /\ requests' = Append(requests,
                   [term |-> tm.term, params |-> buildQuery(tm.term),
                    status |-> "inflight"])
            /\ UNCHANGED <<students, shownFrom>>
       ELSE /\ students' = {}
            /\ shownFrom' = 0
            /\ UNCHANGED <<searchLoading, requests>>
    /\ UNCHANGED <<isOpen, searchTerm>>
    /\ UNCHANGED nonSearchVars

\* The query resolves with data (lines 88-95).
QueryReturns(r, data) ==
    /\ requests[r].status = "inflight"
    /\ requests' = [requests EXCEPT ![r].status = "ok"]
    /\ students' = data
    /\ shownFrom' = r
    /\ searchLoading' = FALSE
    /\ UNCHANGED <<isOpen, searchTerm, timer>>
    /\ UNCHANGED nonSearchVars

\* The query resolves with an error (lines 90-91, 95).
QueryFails(r) ==
    /\ requests[r].status = "inflight"
    /\ requests' = [requests EXCEPT ![r].status = "error"]
    /\ searchLoading' = FALSE
    /\ UNCHANGED <<isOpen, searchTerm, students, timer, shownFrom>>
    /\ UNCHANGED nonSearchVars

NextSearch ==
    \/ OpenModal
    \/ CloseModal
    \/ \E t \in Terms : TypeTerm(t)
    \/ Elapse
    \/ \E tm \in timer : TimerFires(tm)
    \/ \E r \in DOMAIN requests :
          /\ requests[r].status = "inflight"
          /\ \E data \in limited(selectedRows(requests[r].params)) : QueryReturns(r, data)
    \/ \E r \in DOMAIN requests : QueryFails(r)

(***************************************************************************)
(* psych_reminders: Home (dashboard) and Reminders (src/unnamed/part_001)  *)
(*                                                                         *)
(* A round trip is "sent" by the handler, then "applied" or "rejected" by  *)
(* the store, then delivered to the handler's continuation ("done" or      *)
(* "failed").  The store applies one request at a time; `at` is the        *)
(* position of the request in that order.                                  *)
(***************************************************************************)
Me == 1
Other == 2

ReminderIds == 1..3

\* The owner recorded in psych_reminders.psychologist_id.
reminderOwner(id) == IF id = 3 THEN Other ELSE Me

HomeReminderLimit == 3

MaxRemReqs == 4

NoData == {}

remRequest(op, from, id, val, after) ==
    [op |-> op, from |-> from, id |-> id, val |-> val, after |-> after,
     status |-> "sent", at |-> 0, data |-> NoData]

\* The n rows created last (order by created_at descending, limit n); rows
\* are created in the order of their ids.
newestFirst(ids, n) ==
    {i \in ids : Cardinality({j \in ids : j > i}) < n}

\* .eq('psychologist_id', user.id).eq('is_completed', false)
\* .order('created_at', { ascending: false }).limit(3)
selectIncomplete(store) ==
    LET own == {i \in ReminderIds : /\ store[i].exists
                                    /\ reminderOwner(i) = Me
                                    /\ ~store[i].is_completed}
    IN {<<i, FALSE>> : i \in newestFirst(own, HomeReminderLimit)}

\* .select('*').eq('psychologist_id', user.id)
selectReminders(store) ==
    {<<i, store[i].is_completed>> :
        i \in {j \in ReminderIds : store[j].exists /\ reminderOwner(j) = Me}}

\* What the store does with a request: the table afterwards and the rows
\* it answers with.
applyToReminders(store, q) ==
    CASE q.op = "update" ->
           [store |-> IF store[q.id].exists
                      THEN [store EXCEPT ![q.id].is_completed = q.val]
                      ELSE store,
            data |-> NoData]
      [] q.op = "delete" ->
           [store |-> [store EXCEPT ![q.id].exists = FALSE], data |-> NoData]
      [] q.op = "fetchIncomplete" ->
           [store |-> store, data |-> selectIncomplete(store)]
      [] OTHER ->
           [store |-> store, data |-> selectReminders(store)]

appliedCount(reqs) == Cardinality({r \in DOMAIN reqs : reqs[r].at > 0})

idsOf(rows) == {row[1] : row \in rows}

\* Both pages mounted (two tabs of the same psychologist): each mount effect
\* has issued its fetch (lines 213-217, 551).
InitReminders ==
    /\ remStore \in [ReminderIds -> [exists : {TRUE}, is_completed : BOOLEAN]]
    /\ ~remStore[2].is_completed
    /\ ~remStore[3].is_completed
    /\ remReqs = << remRequest("fetchIncomplete", "Home.mount", 0, FALSE, 0),
                    remRequest("fetchAll", "Reminders.mount", 0, FALSE, 0) >>
    /\ homeList = {}
    /\ pageList = {}

IdleReminders ==
    /\ remStore = [i \in ReminderIds |-> [exists |-> TRUE, is_completed |-> FALSE]]
    /\ remReqs = <<>>
    /\ homeList = {}
    /\ pageList = {}

\* The store applies a request it has received.
RemStoreApplies(r) ==
    /\ remReqs[r].status = "sent"
    /\ LET res == applyToReminders(remStore, remReqs[r])
       IN /\ remStore' = res.store
          /\ remReqs' = [remReqs EXCEPT ![r].status = "applied",
                                        ![r].at = appliedCount(remReqs) + 1,
                                        ![r].data = res.data]
    /\ UNCHANGED <<homeList, pageList>>
    /\ UNCHANGED nonRemVars

\* The request is lost or refused: the client gets { error }.
RemStoreRejects(r) ==
    /\ remReqs[r].status = "sent"
    /\ remReqs' = [remReqs EXCEPT ![r].status = "rejected"]
    /\ UNCHANGED <<remStore, homeList, pageList>>
    /\ UNCHANGED nonRemVars

\* Home.handleCompleteReminder up to its await (lines 241-244).
handleCompleteReminderNoAwait(id) ==
    /\ id \in homeList
    /\ Len(remReqs) + 2 <= MaxRemReqs
    /\ homeList' = homeList \ {id}
    /\ remReqs' = remReqs \o
          << remRequest("update", "Home.unawaited", id, TRUE, 0),
             remRequest("fetchIncomplete", "Home.refetch", 0, FALSE, Len(remReqs) + 1) >>
    /\ UNCHANGED <<remStore, pageList>>
    /\ UNCHANGED nonRemVars

handleCompleteReminder(id) ==
    /\ id \in homeList
    /\ Len(remReqs) < MaxRemReqs
    /\ homeList' = homeList \ {id}
    /\ remReqs' = Append(remReqs,
          remRequest("update", "Home.handleCompleteReminder", id, TRUE, 0))
    /\ UNCHANGED <<remStore, pageList>>
    /\ UNCHANGED nonRemVars

\* Reminders.toggleComplete up to its await (lines 581-584).
toggleComplete(id) ==
    /\ id \in idsOf(pageList)
    /\ Len(remReqs) < MaxRemReqs
    /\ LET shown == CHOOSE row \in pageList : row[1] = id
           updated == ~shown[2]
       IN /\ pageList' = (pageList \ {shown}) \cup {<<id, updated>>}
          /\ remReqs' = Append(remReqs,
                remRequest("update", "Reminders.toggleComplete", id, updated, 0))
    /\ UNCHANGED <<remStore, homeList>>
    /\ UNCHANGED nonRemVars

\* Reminders.handleDelete up to its await (line 588).
RemindersHandleDelete(id) ==
    /\ id \in idsOf(pageList)
    /\ Len(remReqs) < MaxRemReqs
    /\ remReqs' = Append(remReqs,
          remRequest("delete", "Reminders.handleDelete", id, FALSE, 0))
    /\ UNCHANGED <<remStore, homeList, pageList>>
    /\ UNCHANGED nonRemVars

\* The Reminders page is opened again: fresh state, fetchReminders (line 551).
ReopenReminders ==
    /\ remReqs # <<>>
    /\ Len(remReqs) < MaxRemReqs
    /\ pageList' = {}
    /\ remReqs' = Append(remReqs, remRequest("fetchAll", "Reminders.mount", 0, FALSE, 0))
    /\ UNCHANGED <<remStore, homeList>>
    /\ UNCHANGED nonRemVars

\* The continuations with a toggleComplete that takes its flip back when
\* the update failed.
RemDeliveredReverting(r) ==
    /\ remReqs[r].status \in {"applied", "rejected"}
    /\ LET q == remReqs[r]
           ok == q.status = "applied"
           settled == [remReqs EXCEPT ![r].status = IF ok THEN "done" ELSE "failed"]
       IN CASE q.from \in {"Home.mount", "Home.refetch"} ->
                 /\ homeList' = IF ok THEN idsOf(q.data) ELSE homeList
                 /\ remReqs' = settled
                 /\ UNCHANGED pageList
            [] q.from = "Home.handleCompleteReminder" ->
                 /\ Len(remReqs) < MaxRemReqs
                 /\ remReqs' = Append(settled,
                       remRequest("fetchIncomplete", "Home.refetch", 0, FALSE, r))
                 /\ UNCHANGED <<homeList, pageList>>
            [] q.from = "Reminders.mount" ->
                 /\ pageList' = IF ok THEN q.data ELSE pageList
                 /\ remReqs' = settled
                 /\ UNCHANGED homeList
            [] q.from = "Reminders.handleDelete" ->
                 /\ pageList' = {row \in pageList : row[1] # q.id}
                 /\ remReqs' = settled
                 /\ UNCHANGED homeList
            [] q.from = "Reminders.toggleComplete" ->
                 /\ pageList' = IF ok THEN pageList
                                ELSE {IF row[1] = q.id THEN <<q.id, ~q.val>> ELSE row :
                                         row \in pageList}
                 /\ remReqs' = settled
                 /\ UNCHANGED homeList
            [] OTHER ->
                 /\ remReqs' = settled
                 /\ UNCHANGED <<homeList, pageList>>
    /\ UNCHANGED remStore
    /\ UNCHANGED nonRemVars

\* The response reaches the handler, which runs on from its await:
\* fetchDashboardData lines 235; handleCompleteReminder line 245;
\* fetchReminders line 547; handleDelete line 589.
RemDelivered(r) ==
    /\ remReqs[r].status \in {"applied", "rejected"}
    /\ LET q == remReqs[r]
           ok == q.status = "applied"
           settled == [remReqs EXCEPT ![r].status = IF ok THEN "done" ELSE "failed"]
       IN CASE q.from \in {"Home.mount", "Home.refetch"} ->
                 /\ homeList' = IF ok THEN idsOf(q.data) ELSE homeList
                 /\ remReqs' = settled
                 /\ UNCHANGED pageList
            [] q.from = "Home.handleCompleteReminder" ->
                 /\ Len(remReqs) < MaxRemReqs
                 /\ remReqs' = Append(settled,
                       remRequest("fetchIncomplete", "Home.refetch", 0, FALSE, r))
                 /\ UNCHANGED <<homeList, pageList>>
            [] q.from = "Reminders.mount" ->
                 /\ pageList' = IF ok THEN q.data ELSE pageList
                 /\ remReqs' = settled
                 /\ UNCHANGED homeList
            [] q.from = "Reminders.handleDelete" ->
                 /\ pageList' = {row \in pageList : row[1] # q.id}
                 /\ remReqs' = settled
                 /\ UNCHANGED homeList
            [] OTHER ->
                 /\ remReqs' = settled
                 /\ UNCHANGED <<homeList, pageList>>
    /\ UNCHANGED remStore
    /\ UNCHANGED nonRemVars

NextReminders ==
    \/ \E r \in DOMAIN remReqs : RemStoreApplies(r)
    \/ \E r \in DOMAIN remReqs : RemStoreRejects(r)
    \/ \E r \in DOMAIN remReqs : RemDelivered(r)
    \/ \E id \in ReminderIds : handleCompleteReminder(id)
    \/ \E id \in ReminderIds : toggleComplete(id)
    \/ \E id \in ReminderIds : RemindersHandleDelete(id)
    \/ ReopenReminders

(***************************************************************************)
(* The local server (src/server.ts): psychology.db, the startup code and   *)
(* the REST endpoints.  better-sqlite3 is synchronous and the server has   *)
(* one thread, so each call is one step.  Dates are days counted from      *)
(* today, times are HHMM numbers.                                          *)
(***************************************************************************)
MaxCalls == 3

emptyDb ==
    [users |-> <<>>, reminders |-> <<>>, appointments |-> <<>>, attentions |-> <<>>,
     nextId |-> [users |-> 1, reminders |-> 1, appointments |-> 1, attentions |-> 1]]

\* INSERT INTO t ...: the row gets the next AUTOINCREMENT id, which is never
\* used again.
insertRow(d, t, row) ==
    LET id == d.nextId[t]
        withId == [id |-> id] @@ row
    IN [d EXCEPT ![t] = Append(d[t], withId), !.nextId[t] = id + 1]

RECURSIVE insertRows(_, _, _)
insertRows(d, t, rows) ==
    IF rows = <<>> THEN d
    ELSE insertRows(insertRow(d, t, Head(rows)), t, Tail(rows))

idsIn(table) == {table[k].id : k \in DOMAIN table}

\* DELETE FROM t WHERE id = ?
deleteRow(d, t, id) ==
    [d EXCEPT ![t] = SelectSeq(d[t], LAMBDA row : row.id # id)]

adminId(d) ==
    LET k == CHOOSE k \in DOMAIN d.users : d.users[k].username = "admin"
    IN d.users[k].id

initialReminders(pid) ==
    << [title |-> "Actualizacion de Expedientes", type |-> "warning", psychologist_id |-> pid],
       [title |-> "Taller de Convivencia", type |-> "info", psychologist_id |-> pid] >>

appts(pid) ==
    << [student_name |-> "Roberto Diaz", grade |-> "4to Primaria", date |-> 0,
        time |-> 800, status |-> "pending", psychologist_id |-> pid],
       [student_name |-> "Lucia Mendez", grade |-> "2do Secundaria", date |-> 0,
        time |-> 1030, status |-> "pending", psychologist_id |-> pid],
       [student_name |-> "Kevin Quispe", grade |-> "5to Secundaria", date |-> 1,
        time |-> 900, status |-> "pending", psychologist_id |-> pid] >>

examples(pid) ==
    << [student_name |-> "Juan Perez Garcia", date |-> 15, time |-> 930, psychologist_id |-> pid],
       [student_name |-> "Maria Rodriguez Lopez", date |-> 18, time |-> 1100, psychologist_id |-> pid],
       [student_name |-> "Carlos Mendoza Soto", date |-> 19, time |-> 1415, psychologist_id |-> pid],
       [student_name |-> "Ana Belen Torres", date |-> 20, time |-> 1045, psychologist_id |-> pid] >>

\* Lines 58-66.
seedUser(d) ==
    IF \E k \in DOMAIN d.users : d.users[k].username = "admin" THEN d
    ELSE insertRow(d, "users", [username |-> "admin", full_name |-> "Psic. Principal"])

\* Seeds whatever the table holds already.
seedTableAlways(d, t, rows) == insertRows(d, t, rows)

\* Lines 69-70, 88-89, 111-112: "if table is empty".
seedTable(d, t, rows) ==
    IF Len(d[t]) = 0 THEN insertRows(d, t, rows) ELSE d

\* The startup code, lines 10-165, run against the database file d.
startup(d) ==
    LET d1 == seedUser(d)
        d2 == seedTable(d1, "reminders", initialReminders(adminId(d1)))
        d3 == seedTable(d2, "appointments", appts(adminId(d2)))
    IN seedTable(d3, "attentions", examples(adminId(d3)))

Tables == {"users", "reminders", "appointments", "attentions"}

\* Rows that turned d into e, per table.
inserted(d, e) == [t \in Tables |-> Len(e[t]) - Len(d[t])]

\* ORDER BY date ASC, time ASC (rows of equal date and time in id order).
comesBefore(a, b) ==
    \/ a.date < b.date
    \/ a.date = b.date /\ a.time < b.time
    \/ a.date = b.date /\ a.time = b.time /\ a.id < b.id

RECURSIVE ordered(_, _)
ordered(rows, asc) ==
    IF rows = {} THEN <<>>
    ELSE LET first == CHOOSE a \in rows :
                         \A b \in rows \ {a} :
                             IF asc THEN comesBefore(a, b) ELSE comesBefore(b, a)
         IN <<first>> \o ordered(rows \ {first}, asc)

rowsOf(table) == {table[k] : k \in DOMAIN table}

\* GET /api/appointments, lines 197-204.
pendingAppointments(d) ==
    ordered({a \in rowsOf(d.appointments) : a.status = "pending"}, TRUE)

Users == {1, 7}

PostAppointmentBodies ==
    { [student_name |-> "Ana Torres", grade |-> "6to", date |-> 0, time |-> 800,
       psychologist_id |-> 1],
      [student_name |-> "Luis Vega", grade |-> "1ro", date |-> 0, time |-> 800,
       psychologist_id |-> 1],
      [student_name |-> "Ana Torres", grade |-> "6to", date |-> 1, time |-> 1500,
       psychologist_id |-> 7] }

PatchIds == {1, 4}
PatchStatuses == {"pending", "completed", "cancelled", "archived"}
DeleteIds == {1, 2, 3}

NoBody == [student_name |-> "", grade |-> "", date |-> 0, time |-> 0,
           psychologist_id |-> 0]

\* A call (endpoint, :id, body) and its response (status code, id, rows).
response(endpoint, code, id, rows) ==
    [endpoint |-> endpoint, code |-> code, id |-> id, rows |-> rows, body |-> NoBody]

NoCall == response("none", 0, 0, <<>>)

\* FOREIGN KEY (psychologist_id) REFERENCES users(id)
knownUser(d, pid) == pid \in idsIn(d.users)

\* psychologist_id INTEGER has no NOT NULL: a body with psychologist_id null
\* stores NULL, which a foreign key does not check.
Null == 0

AttentionOwners == Users \cup {Null}

references(d, pid) == pid = Null \/ knownUser(d, pid)

\* SELECT a.*, u.full_name FROM attentions a JOIN users u
\* ON a.psychologist_id = u.id ORDER BY a.date DESC, a.time DESC
getAttentions(d) ==
    ordered({a \in rowsOf(d.attentions) : knownUser(d, a.psychologist_id)}, FALSE)

\* Lines 187-193: SELECT COUNT(*) FROM attentions, and the count of the
\* pending appointments dated today.
getStats(d) ==
    [totalAttentions |-> Len(d.attentions),
     todayAppointments |->
         Cardinality({a \in rowsOf(d.appointments) :
                         a.date = 0 /\ a.status = "pending"})]

InitServer ==
    /\ db = startup(emptyDb)
    /\ srvCalls = 0
    /\ lastCall = NoCall
    /\ runs = 1
    /\ lastSeeded = inserted(emptyDb, startup(emptyDb))
    /\ cancelledIds = {}

IdleServer ==
    /\ db = emptyDb
    /\ srvCalls = 0
    /\ lastCall = NoCall
    /\ runs = 0
    /\ lastSeeded = [t \in Tables |-> 0]
    /\ cancelledIds = {}

ServerUp == runs > 0 /\ srvCalls < MaxCalls

\* The server process is stopped and started again on the same file.
Restart ==
    /\ ServerUp
    /\ db' = startup(db)
    /\ lastSeeded' = inserted(db, startup(db))
    /\ runs' = runs + 1
    /\ srvCalls' = srvCalls + 1
    /\ lastCall' = NoCall
    /\ UNCHANGED cancelledIds
    /\ UNCHANGED nonSrvVars

GetAppointments ==
    /\ ServerUp
    /\ lastCall' = response("GET /api/appointments", 200, 0, pendingAppointments(db))
    /\ srvCalls' = srvCalls + 1
    /\ UNCHANGED <<db, runs, lastSeeded, cancelledIds>>
    /\ UNCHANGED nonSrvVars

\* Rejects a slot that is taken.
PostAppointmentUniqueSlot(body) ==
    /\ ServerUp
    /\ srvCalls' = srvCalls + 1
    /\ IF /\ knownUser(db, body.psychologist_id)
          /\ \A a \in rowsOf(db.appointments) :
                ~(a.date = body.date /\ a.time = body.time
                  /\ a.psychologist_id = body.psychologist_id)
       THEN /\ db' = insertRow(db, "appointments", [status |-> "pending"] @@ body)
            /\ lastCall' = [response("POST /api/appointments", 200,
                                     db.nextId["appointments"], <<>>)
                             EXCEPT !.body = body]
       ELSE /\ db' = db
            /\ lastCall' = [response("POST /api/appointments", 500, 0, <<>>)
                             EXCEPT !.body = body]
    /\ UNCHANGED <<runs, lastSeeded, cancelledIds>>
    /\ UNCHANGED nonSrvVars

\* POST /api/appointments, lines 206-213; status takes the column default.
PostAppointment(body) ==
    /\ ServerUp
    /\ srvCalls' = srvCalls + 1
    /\ IF knownUser(db, body.psychologist_id)
       THEN /\ db' = insertRow(db, "appointments", [status |-> "pending"] @@ body)
            /\ lastCall' = [response("POST /api/appointments", 200,
                                     db.nextId["appointments"], <<>>)
                             EXCEPT !.body = body]
       ELSE /\ db' = db
            /\ lastCall' = [response("POST /api/appointments", 500, 0, <<>>)
                             EXCEPT !.body = body]
    /\ UNCHANGED <<runs, lastSeeded, cancelledIds>>
    /\ UNCHANGED nonSrvVars

\* PATCH /api/appointments/:id/status, lines 215-220.
PatchStatus(id, status) ==
    /\ ServerUp
    /\ srvCalls' = srvCalls + 1
    /\ db' = [db EXCEPT !.appointments =
                 [k \in DOMAIN db.appointments |->
                     IF db.appointments[k].id = id
                     THEN [db.appointments[k] EXCEPT !.status = status]
                     ELSE db.appointments[k]]]
    /\ lastCall' = response("PATCH /api/appointments/:id/status", 200, id, <<>>)
    /\ cancelledIds' = IF status = "cancelled" /\ id \in idsIn(db.appointments)
                       THEN cancelledIds \cup {id} ELSE cancelledIds
    /\ UNCHANGED <<runs, lastSeeded>>
    /\ UNCHANGED nonSrvVars

\* GET /api/reminders, lines 223-229 (created_at descending: newest id first).
GetReminders ==
    /\ ServerUp
    /\ srvCalls' = srvCalls + 1
    /\ lastCall' = response("GET /api/reminders", 200, 0,
           [k \in DOMAIN db.reminders |-> db.reminders[Len(db.reminders) + 1 - k]])
    /\ UNCHANGED <<db, runs, lastSeeded, cancelledIds>>
    /\ UNCHANGED nonSrvVars

\* POST /api/reminders, lines 231-238.
PostReminder(pid) ==
    /\ ServerUp
    /\ srvCalls' = srvCalls + 1
    /\ IF knownUser(db, pid)
       THEN /\ db' = insertRow(db, "reminders",
                       [title |-> "Llamar a la familia", type |-> "info",
                        psychologist_id |-> pid])
            /\ lastCall' = response("POST /api/reminders", 200, db.nextId["reminders"], <<>>)
       ELSE /\ db' = db
            /\ lastCall' = response("POST /api/reminders", 500, 0, <<>>)
    /\ UNCHANGED <<runs, lastSeeded, cancelledIds>>
    /\ UNCHANGED nonSrvVars

\* DELETE /api/reminders/:id, lines 240-244.
DeleteReminder(id) ==
    /\ ServerUp
    /\ srvCalls' = srvCalls + 1
    /\ db' = deleteRow(db, "reminders", id)
    /\ lastCall' = response("DELETE /api/reminders/:id", 200, id, <<>>)
    /\ UNCHANGED <<runs, lastSeeded, cancelledIds>>
    /\ UNCHANGED nonSrvVars

\* GET /api/attentions, lines 247-255: date and time descending, joined
\* with users.
GetAttentions ==
    /\ ServerUp
    /\ srvCalls' = srvCalls + 1
    /\ lastCall' = response("GET /api/attentions", 200, 0, getAttentions(db))
    /\ UNCHANGED <<db, runs, lastSeeded, cancelledIds>>
    /\ UNCHANGED nonSrvVars

\* POST /api/attentions, lines 257-265.
PostAttention(pid) ==
    /\ ServerUp
    /\ srvCalls' = srvCalls + 1
    /\ IF references(db, pid)
       THEN /\ db' = insertRow(db, "attentions",
                       [student_name |-> "Ana Torres", date |-> 20, time |-> 1045,
                        psychologist_id |-> pid])
            /\ lastCall' = response("POST /api/attentions", 200, db.nextId["attentions"], <<>>)
       ELSE /\ db' = db
            /\ lastCall' = response("POST /api/attentions", 500, 0, <<>>)
    /\ UNCHANGED <<runs, lastSeeded, cancelledIds>>
    /\ UNCHANGED nonSrvVars

\* DELETE /api/attentions/:id, lines 267-271.
DeleteAttention(id) ==
    /\ ServerUp
    /\ srvCalls' = srvCalls + 1
    /\ db' = deleteRow(db, "attentions", id)
    /\ lastCall' = response("DELETE /api/attentions/:id", 200, id, <<>>)
    /\ UNCHANGED <<runs, lastSeeded, cancelledIds>>
    /\ UNCHANGED nonSrvVars

\* GET /api/stats, lines 186-194.
GetStats ==
    /\ ServerUp
    /\ srvCalls' = srvCalls + 1
    /\ lastCall' = response("GET /api/stats", 200, 0, <<getStats(db)>>)
    /\ UNCHANGED <<db, runs, lastSeeded, cancelledIds>>
    /\ UNCHANGED nonSrvVars

NextServer ==
    \/ Restart
    \/ GetStats
    \/ GetAppointments
    \/ \E body \in PostAppointmentBodies : PostAppointment(body)
    \/ \E id \in PatchIds, status \in PatchStatuses : PatchStatus(id, status)
    \/ GetReminders
    \/ \E pid \in Users : PostReminder(pid)
    \/ \E id \in DeleteIds : DeleteReminder(id)
    \/ GetAttentions
    \/ \E pid \in AttentionOwners : PostAttention(pid)
    \/ \E id \in DeleteIds : DeleteAttention(id)

(***************************************************************************)
(* psych_appointments: Schedule and NewAttention in two browser sessions   *)
(* of the same psychologist (src/unnamed/part_001): session 1 walks from   *)
(* Schedule to NewAttention and on, session 2 stays on Schedule.  A round  *)
(* trip is "sent", then either "applied" by the store and "done" when the  *)
(* answer reaches the handler, or "failed" when the handler gets { error }.*)
(***************************************************************************)
Sessions == {1, 2}

MaxApptReqs == 3

NoAppt == [id |-> 0, student_name |-> "", date |-> 0, time |-> 0,
           status |-> "", psychologist_id |-> 0]

\* What the Schedule form can hold when it is submitted.
ScheduleForms ==
    { [student_name |-> "Ana Torres", date |-> 0, time |-> 800],
      [student_name |-> "Luis Vega", date |-> 0, time |-> 800] }

apptRequest(op, from, s, id, val, row) ==
    [op |-> op, from |-> from, mount |-> sess[s].mount, id |-> id,
     val |-> val, row |-> row, status |-> "sent", data |-> {}, after |-> 0]

\* .eq('psychologist_id', user.id).eq('status', 'pending'), lines 407-413
selectPending(store) ==
    {a \in rowsOf(store) : a.psychologist_id = Me /\ a.status = "pending"}

\* The table after the store has applied q.
applyToAppointments(store, q) ==
    CASE q.op = "insertAppointment" ->
           Append(store, [id |-> Len(store) + 1] @@ q.row)
      [] q.op = "updateStatus" ->
           [k \in DOMAIN store |->
               IF store[k].id = q.id THEN [store[k] EXCEPT !.status = q.val]
               ELSE store[k]]
      [] OTHER -> store

\* Both sessions on Schedule, the mount effect's fetch answered (line 418).
InitAppointments ==
    /\ apptStore = << [id |-> 1, student_name |-> "Roberto Diaz", date |-> 0,
                       time |-> 800, status |-> "pending", psychologist_id |-> Me] >>
    /\ attStore = <<>>
    /\ sess = [s \in Sessions |->
                 [page |-> "schedule", mount |-> 1, loading |-> FALSE,
                  list |-> selectPending(apptStore),
                  appt |-> NoAppt, submitting |-> FALSE, alerted |-> {}]]
    /\ apptReqs = [s \in Sessions |-> <<>>]

IdleAppointments ==
    /\ apptStore = <<>>
    /\ attStore = <<>>
    /\ sess = [s \in Sessions |->
                 [page |-> "closed", mount |-> 0, loading |-> FALSE, list |-> {},
                  appt |-> NoAppt, submitting |-> FALSE, alerted |-> {}]]
    /\ apptReqs = [s \in Sessions |-> <<>>]

\* Room for n more round trips.
apptRoom(n) == Len(apptReqs[1]) + Len(apptReqs[2]) + n <= MaxApptReqs

\* The store applies the k-th request of session s.
ApptStoreApplies(s, k) ==
    /\ apptReqs[s][k].status = "sent"
    /\ LET q == apptReqs[s][k]
       IN /\ apptStore' = applyToAppointments(apptStore, q)
          /\ attStore' = IF q.op = "insertAttention"
                         THEN Append(attStore, [id |-> Len(attStore) + 1] @@ q.row)
                         ELSE attStore
          /\ apptReqs' = [apptReqs EXCEPT
                ![s][k].status = "applied",
                ![s][k].data = IF q.op = "fetch" THEN selectPending(apptStore) ELSE {}]
    /\ UNCHANGED sess
    /\ UNCHANGED nonApptVars

\* fetchAppointments up to its await (lines 404-413) appended to the log.
withFetch(reqs, from, mount) ==
    Append(reqs, [op |-> "fetch", from |-> from,
                  mount |-> mount, id |-> 0, val |-> "", row |-> NoAppt,
                  status |-> "sent", data |-> {}, after |-> 0])

\* The Schedule page is opened: fresh state and the mount effect (line 418).
OpenSchedule(s) ==
    /\ sess[s].page \in {"new", "history"}
    /\ ~sess[s].submitting
    /\ apptRoom(1)
    /\ sess' = [sess EXCEPT ![s].page = "schedule", ![s].mount = @ + 1,
                            ![s].loading = TRUE, ![s].list = {},
                            ![s].appt = NoAppt]
    /\ apptReqs' = [apptReqs EXCEPT ![s] = withFetch(@, "Schedule.mount", sess[s].mount + 1)]
    /\ UNCHANGED <<apptStore, attStore>>
    /\ UNCHANGED nonApptVars

\* Schedule.handleAdd up to its await (lines 420-427).
ScheduleHandleAdd(s, form) ==
    /\ sess[s].page = "schedule"
    /\ apptRoom(1)
    /\ apptReqs' = [apptReqs EXCEPT ![s] = Append(@,
          apptRequest("insertAppointment", "Schedule.handleAdd", s, 0, "",
                      form @@ [psychologist_id |-> Me, status |-> "pending"]))]
    /\ UNCHANGED <<apptStore, attStore, sess>>
    /\ UNCHANGED nonApptVars

\* Schedule.updateStatus up to its await (line 436); the list offers it with
\* 'cancelled' (line 485).
updateStatus(s, id, status) ==
    /\ sess[s].page = "schedule"
    /\ ~sess[s].loading
    /\ \E a \in sess[s].list : a.id = id
    /\ apptRoom(1)
    /\ apptReqs' = [apptReqs EXCEPT ![s] = Append(@,
          apptRequest("updateStatus", "Schedule.updateStatus", s, id, status, NoAppt))]
    /\ UNCHANGED <<apptStore, attStore, sess>>
    /\ UNCHANGED nonApptVars

\* "Registrar Atencion" on a listed appointment: navigate('/new', { state:
\* { appt } }) (line 482); or the form opened without an appointment.
OpenNewAttention(s, a) ==
    /\ sess[s].page = "schedule"
    /\ a = NoAppt \/ (~sess[s].loading /\ a \in sess[s].list)
    /\ sess' = [sess EXCEPT ![s].page = "new", ![s].appt = a,
                            ![s].submitting = FALSE]
    /\ UNCHANGED <<apptStore, attStore, apptReqs>>
    /\ UNCHANGED nonApptVars

\* formData as initialised from the appointment (lines 813-821).
attentionRow(a) == [a EXCEPT !.id = 0, !.status = "", !.psychologist_id = Me]

\* Writes the appointment along with the attention.
handleSubmitBothAtOnce(s) ==
    /\ sess[s].page = "new"
    /\ ~sess[s].submitting
    /\ apptRoom(2)
    /\ sess' = [sess EXCEPT ![s].submitting = TRUE]
    /\ apptReqs' = [apptReqs EXCEPT ![s] = @ \o
          << apptRequest("insertAttention", "NewAttention.unawaited", s, 0, "",
                         attentionRow(sess[s].appt)),
             [apptRequest("updateStatus", "NewAttention.completed", s, sess[s].appt.id,
                          "completed", NoAppt) EXCEPT !.after = Len(apptReqs[s]) + 1] >>]
    /\ UNCHANGED <<apptStore, attStore>>
    /\ UNCHANGED nonApptVars

\* NewAttention.handleSubmit up to its first await (lines 823-831).
handleSubmit(s) ==
    /\ sess[s].page = "new"
    /\ ~sess[s].submitting
    /\ apptRoom(1)
    /\ sess' = [sess EXCEPT ![s].submitting = TRUE]
    /\ apptReqs' = [apptReqs EXCEPT ![s] = Append(@,
          apptRequest("insertAttention", "NewAttention.handleSubmit", s, 0, "",
                      attentionRow(sess[s].appt)))]
    /\ UNCHANGED <<apptStore, attStore>>
    /\ UNCHANGED nonApptVars

\* Leaves the form open.
stayOnForm(ss, s) == [ss EXCEPT ![s].submitting = FALSE]

\* navigate('/history') and setLoading(false), lines 838 and 842.
toHistory(ss, s) ==
    [ss EXCEPT ![s].page = "history", ![s].submitting = FALSE]

\* The response reaches the handler, which runs on from its await: the
\* answer of the store to a request it applied (ok), or { error } for a
\* request that was lost or refused.  fetchAppointments lines 414-415;
\* handleAdd lines 428-432; updateStatus line 437; handleSubmit lines 833-842.
ApptDelivered(s, k, ok) ==
    /\ apptReqs[s][k].status = IF ok THEN "applied" ELSE "sent"
    /\ LET q == apptReqs[s][k]
           settled == [apptReqs[s] EXCEPT ![k].status = IF ok THEN "done" ELSE "failed",
                                          ![k].data = {}]
           mounted == sess[s].page = "schedule" /\ sess[s].mount = q.mount
           refetching == IF mounted THEN [sess EXCEPT ![s].loading = TRUE] ELSE sess
       IN CASE q.op = "fetch" ->
                 /\ sess' = IF mounted
                            THEN [sess EXCEPT ![s].list = IF ok THEN q.data ELSE @,
                                              ![s].loading = FALSE]
                            ELSE sess
                 /\ apptReqs' = [apptReqs EXCEPT ![s] = settled]
            [] q.from = "Schedule.handleAdd" /\ ok ->
                 /\ apptRoom(1)
                 /\ sess' = refetching
                 /\ apptReqs' = [apptReqs EXCEPT ![s] = withFetch(settled, "fetchAppointments", q.mount)]
            [] q.from = "Schedule.updateStatus" ->
                 /\ apptRoom(1)
                 /\ sess' = refetching
                 /\ apptReqs' = [apptReqs EXCEPT ![s] = withFetch(settled, "fetchAppointments", q.mount)]
            [] q.from = "NewAttention.handleSubmit" /\ ok /\ sess[s].appt.id # 0 ->
                 /\ apptRoom(1)
                 /\ sess' = sess
                 /\ apptReqs' = [apptReqs EXCEPT ![s] = Append(settled,
                       [apptRequest("updateStatus", "NewAttention.completed", s,
                                    sess[s].appt.id, "completed", NoAppt)
                        EXCEPT !.after = k])]
            [] q.from = "NewAttention.handleSubmit" /\ ok /\ sess[s].appt.id = 0 ->
                 /\ sess' = toHistory(sess, s)
                 /\ apptReqs' = [apptReqs EXCEPT ![s] = settled]
            [] q.from = "NewAttention.handleSubmit" /\ ~ok ->
                 /\ sess' = [sess EXCEPT ![s].alerted = @ \cup {k}, ![s].submitting = FALSE]
                 /\ apptReqs' = [apptReqs EXCEPT ![s] = settled]
            [] q.from = "NewAttention.completed" ->
                 /\ sess' = toHistory(sess, s)
                 /\ apptReqs' = [apptReqs EXCEPT ![s] = settled]
            [] OTHER ->
                 /\ sess' = sess
                 /\ apptReqs' = [apptReqs EXCEPT ![s] = settled]
    /\ UNCHANGED <<apptStore, attStore>>
    /\ UNCHANGED nonApptVars

NextAppointments ==
    \/ \E s \in Sessions : \E k \in DOMAIN apptReqs[s] : ApptStoreApplies(s, k)
    \/ \E s \in Sessions : \E k \in DOMAIN apptReqs[s] : \E ok \in BOOLEAN :
          ApptDelivered(s, k, ok)
    \/ OpenSchedule(1)
    \/ \E s \in Sessions, form \in ScheduleForms : ScheduleHandleAdd(s, form)
    \/ \E s \in Sessions, id \in idsIn(apptStore) : updateStatus(s, id, "cancelled")
    \/ \E a \in sess[1].list \cup {NoAppt} : OpenNewAttention(1, a)
    \/ handleSubmit(1)

(***************************************************************************)
(* psych_attentions: History (src/unnamed/part_001) and the export of a    *)
(* listed record with generateAttentionPDF.  Attention rows are never      *)
(* updated, so the table is the set of ids it holds; the list holds the    *)
(* rows as they were fetched.  Round trips are as for the appointments.    *)
(***************************************************************************)
AttentionIds == {1, 2}

MaxHistReqs == 2

\* The rows as NewAttention stored them: every text is a string.  The list
\* formats the date of each row it renders (line 786), so a listed row has a
\* date that parses.
storedAttention(id) ==
    IF id = 1
    THEN [id |-> 1, student_name |-> <<"A","n","a">>, date |-> ValidDate,
          reason |-> SubSeq(SampleText, 1, MaxTextLen), observations |-> <<>>,
          recommendations |-> <<"a">>]
    ELSE [id |-> id, student_name |-> <<"A"," ","\t","B"," ","C">>, date |-> ValidDate,
          reason |-> <<>>, observations |-> <<>>, recommendations |-> <<>>]

\* What becomes of the export's input when the row is not there.
NoAttention ==
    [student_name |-> <<>>, date |-> <<>>, reason |-> NoText,
     observations |-> NoText, recommendations |-> NoText]

\* { ...attention, psychologist_name: ... }, line 791
spread(a) ==
    [student_name |-> a.student_name, date |-> a.date, reason |-> a.reason,
     observations |-> a.observations, recommendations |-> a.recommendations]

histRequest(op, id) == [op |-> op, id |-> id, stage |-> "sent", data |-> {}]

\* select('*') with the psychologist's filter, lines 700-709: all rows are
\* the signed-in psychologist's.
selectAttentions(store) == {storedAttention(id) : id \in store}

\* History after its mount fetch has been answered.
InitHistory ==
    /\ histOpen = TRUE
    /\ histStore = AttentionIds
    /\ histReqs = <<>>
    /\ attentions = selectAttentions(AttentionIds)

IdleHistory ==
    /\ histOpen = FALSE
    /\ histStore = {}
    /\ histReqs = <<>>
    /\ attentions = {}

\* The store applies a request that has reached it.
HistStoreApplies(k) ==
    /\ k \in DOMAIN histReqs
    /\ histReqs[k].stage = "sent"
    /\ LET q == histReqs[k]
       IN /\ histStore' = IF q.op = "delete" THEN histStore \ {q.id} ELSE histStore
          /\ histReqs' = [histReqs EXCEPT ![k].stage = "applied",
                              ![k].data = IF q.op = "fetch"
                                          THEN selectAttentions(histStore) ELSE {}]
    /\ UNCHANGED <<histOpen, attentions>>
    /\ UNCHANGED nonHistVars

\* Leaving the page and coming back: the mount effect fetches (line 715).
ReopenHistory ==
    /\ histOpen
    /\ Len(histReqs) < MaxHistReqs
    /\ histReqs' = Append(histReqs, histRequest("fetch", 0))
    /\ UNCHANGED <<histOpen, histStore, attentions>>
    /\ UNCHANGED nonHistVars

\* handleDelete up to its await, lines 717-719 (confirm answered yes).
HistoryHandleDelete(id) ==
    /\ histOpen
    /\ id \in {a.id : a \in attentions}
    /\ Len(histReqs) < MaxHistReqs
    /\ histReqs' = Append(histReqs, histRequest("delete", id))
    /\ UNCHANGED <<histOpen, histStore, attentions>>
    /\ UNCHANGED nonHistVars

\* The continuation of an awaited request: fetchAttentions lines 711-713,
\* handleDelete line 720 (the result of the delete is not read).
HistDelivered(k, ok) ==
    /\ k \in DOMAIN histReqs
    /\ histReqs[k].stage = IF ok THEN "applied" ELSE "sent"
    /\ LET q == histReqs[k]
       IN /\ histReqs' = [histReqs EXCEPT ![k].stage = IF ok THEN "done" ELSE "failed"]
          /\ attentions' =
                IF q.op = "delete" THEN {a \in attentions : a.id # q.id}
                ELSE IF ok THEN q.data
                ELSE attentions
    /\ UNCHANGED <<histOpen, histStore>>
    /\ UNCHANGED nonHistVars

\* The export that reads the row from the table when the button is pressed.
ExportFromStore(a) ==
    /\ histOpen
    /\ pc = "idle"
    /\ a \in attentions
    /\ att' = IF a.id \in histStore THEN spread(storedAttention(a.id)) ELSE NoAttention
    /\ pc' = "start"
    /\ UNCHANGED <<variant, doc, sec, lines, li, totalPages, fp, saved>>
    /\ UNCHANGED nonPdfVars

\* The download button of a listed record, line 791: generateAttentionPDF is
\* called with a copy of the list's row.
Export(a) ==
    /\ histOpen
    /\ pc = "idle"
    /\ a \in attentions
    /\ att' = spread(a)
    /\ pc' = "start"
    /\ UNCHANGED <<variant, doc, sec, lines, li, totalPages, fp, saved>>
    /\ UNCHANGED nonPdfVars

\* History's list: the fetch, the delete and their round trips.
NextHistoryList ==
    \/ \E k \in DOMAIN histReqs : HistStoreApplies(k)
    \/ ReopenHistory
    \/ \E id \in AttentionIds : HistoryHandleDelete(id)
    \/ \E k \in DOMAIN histReqs, ok \in BOOLEAN : HistDelivered(k, ok)

NextHistory ==
    \/ NextHistoryList
    \/ \E a \in attentions : Export(a)

(***************************************************************************)
(* Who is a psychologist: the gate's role match (RequireAuth.tsx lines     *)
(* 45-47), MainApp's routes and History's query (src/unnamed/part_001),    *)
(* all on the same row of the profiles table.                              *)
(***************************************************************************)
ProfileIds == {1, 2}

\* The role column as the store may hold it.
StoredRoles ==
    { PSICOLOGA, toUpperCase(PSICOLOGA),
      <<" ">> \o <<"P">> \o Tail(PSICOLOGA) \o <<" ">>,
      ADMIN, toUpperCase(ADMIN), DOCENTE, NoRole }

\* psych_attentions rows: 1 and 3 were written by profile 1, 2 by profile 2.
attentionOf(id) == [id |-> id, psychologist_id |-> IF id = 2 THEN 2 ELSE 1]

\* user.role === UserRole.PSICOLOGA (lines 695, 896)
isPsicologa(u) == u.role = PSICOLOGA

\* The Route elements of MainApp, lines 907-912.
mainRoutes(u) ==
    IF isPsicologa(u)
    THEN {"/ Home", "/schedule", "/reminders", "/history", "/new"}
    ELSE {"/ to /history", "/history"}

PsychologistRoutes == {"/ Home", "/schedule", "/reminders", "/history", "/new"}

\* fetchAttentions, lines 697-713: the psychologist_id filter is added for
\* isPsicologa only.
fetchAttentions(u, table) ==
    IF isPsicologa(u) THEN {a \in table : a.psychologist_id = u.id} ELSE table

InitRoles ==
    /\ profile \in [id : ProfileIds, role : StoredRoles]
    /\ appUser = <<>>
    /\ gateView = "spinner"
    /\ routes = {}
    /\ allAttentions \in SUBSET {attentionOf(id) : id \in 1..3}
    /\ historyRows = <<>>

IdleRoles ==
    /\ profile = [id |-> 1, role |-> PSICOLOGA]
    /\ appUser = <<>>
    /\ gateView = "idle"
    /\ routes = {}
    /\ allAttentions = {}
    /\ historyRows = <<>>

\* App.handleSession with a session: the profile is fetched and set
\* (lines 933-944).
handleSession ==
    /\ gateView # "idle"
    /\ appUser = <<>>
    /\ appUser' = <<profile>>
    /\ UNCHANGED <<profile, gateView, routes, allAttentions, historyRows>>
    /\ UNCHANGED nonRoleVars

\* The gate's check with App's allowedRoles (part_001 line 1028,
\* RequireAuth.tsx lines 45-56).
GateDecides ==
    /\ gateView = "spinner"
    /\ gateView' = IF isAllowed(profile.role, <<PSICOLOGA, ADMIN, SUPERVISOR>>)
                   THEN "children" ELSE "403"
    /\ UNCHANGED <<profile, appUser, routes, allAttentions, historyRows>>
    /\ UNCHANGED nonRoleVars

\* MainApp renders inside the gate once App has its user (lines 893-915).
MainApp ==
    /\ gateView = "children"
    /\ appUser # <<>>
    /\ routes = {}
    /\ routes' = mainRoutes(appUser[1])
    /\ UNCHANGED <<profile, appUser, gateView, allAttentions, historyRows>>
    /\ UNCHANGED nonRoleVars

\* History is opened and its fetch is answered (lines 697-715).
HistoryFetched ==
    /\ "/history" \in routes
    /\ historyRows = <<>>
    /\ historyRows' = <<fetchAttentions(appUser[1], allAttentions)>>
    /\ UNCHANGED <<profile, appUser, gateView, routes, allAttentions>>
    /\ UNCHANGED nonRoleVars

NextRoles ==
    \/ handleSession
    \/ GateDecides
    \/ MainApp
    \/ HistoryFetched

(***************************************************************************)
(* App (src/unnamed/part_001 lines 918-1012): handleSession for the        *)
(* initial session and for auth events, the idle-timeout effect and        *)
(* handleLogout.  Time is counted in hours.  A timestamp in local storage  *)
(* carries a mark telling whether this page load wrote it (own) or an      *)
(* earlier session left it.                                                *)
(***************************************************************************)
\* const IDLE_TIMEOUT = 2 * 60 * 60 * 1000, in hours
IDLE_TIMEOUT == 2

MaxNow == 3
MaxFetches == 2
MaxEvents == 2

roleRest == <<profile, gateView, routes, allAttentions, historyRows>>

\* What an earlier session can have left under ACTIVITY_KEY.
LeftTimestamps == {<<>>, <<[t |-> 0 - 1, own |-> FALSE]>>, <<[t |-> 0 - 3, own |-> FALSE]>>}

InitApp ==
    /\ appLoading = TRUE
    /\ fetches = <<>>
    /\ initialAsked = FALSE
    /\ events = 0
    /\ now = 0
    /\ lastActivity \in LeftTimestamps
    /\ armed = FALSE
    /\ logout = "no"
    /\ appHref = <<>>
    /\ signedOut = FALSE
    /\ idleLogout = <<>>

IdleApp ==
    /\ appLoading = TRUE
    /\ fetches = <<>>
    /\ initialAsked = TRUE
    /\ events = MaxEvents
    /\ now = MaxNow
    /\ lastActivity = <<>>
    /\ armed = FALSE
    /\ logout = "done"
    /\ appHref = <<"idle">>
    /\ signedOut = FALSE
    /\ idleLogout = <<>>

\* The page is still there.
AppAlive == appHref = <<>>

\* checkIdleTimeout (lines 971-980): whether it calls handleLogout.
checkIdleTimeout(stored, t) ==
    stored # <<>> /\ t - stored[1].t > IDLE_TIMEOUT

\* The state after setUser(u) and the run of the idle effect that the
\* changed user causes (lines 968-1000): cleanup of the previous run, then
\* nothing for null; else the check and, unless it logs out, updateActivity,
\* the listeners and the interval.
afterSetUser(u) ==
    IF u = <<>>
    THEN [armed |-> FALSE, lastActivity |-> lastActivity, logsOut |-> FALSE]
    ELSE IF checkIdleTimeout(lastActivity, now)
    THEN [armed |-> FALSE, lastActivity |-> lastActivity, logsOut |-> TRUE]
    ELSE [armed |-> TRUE, lastActivity |-> <<[t |-> now, own |-> TRUE]>>,
          logsOut |-> FALSE]

\* setUser(u) and its effect; handleLogout runs up to its await.
setUser(u) ==
    LET after == afterSetUser(u)
    IN /\ appUser' = u
       /\ armed' = after.armed
       /\ lastActivity' = after.lastActivity
       /\ logout' = IF after.logsOut /\ logout = "no" THEN "signingOut" ELSE logout
       /\ idleLogout' = IF after.logsOut
                        THEN Append(idleLogout,
                               [t |-> lastActivity[1].t, own |-> lastActivity[1].own,
                                at |-> now, check |-> "effect"])
                        ELSE idleLogout

\* handleSession(session) up to its await, or to its end when there is no
\* session (lines 929-947).
handleSessionCall(withSession) ==
    IF withSession
    THEN /\ fetches' = Append(fetches, "inflight")
         /\ signedOut' = FALSE
         /\ UNCHANGED <<appUser, appLoading, armed, lastActivity, logout, idleLogout>>
    ELSE /\ setUser(<<>>)
         /\ appLoading' = FALSE
         /\ signedOut' = TRUE
         /\ UNCHANGED fetches

\* getInitialSession: getSession resolves (lines 949-952).
getInitialSession(withSession) ==
    /\ AppAlive
    /\ ~initialAsked
    /\ initialAsked' = TRUE
    /\ withSession => Len(fetches) < MaxFetches
    /\ handleSessionCall(withSession)
    /\ UNCHANGED <<events, now, appHref>>
    /\ UNCHANGED roleRest
    /\ UNCHANGED nonAppVars

\* The onAuthStateChange callback (lines 956-958).
AuthEvent(withSession) ==
    /\ AppAlive
    /\ events < MaxEvents
    /\ events' = events + 1
    /\ withSession => Len(fetches) < MaxFetches
    /\ handleSessionCall(withSession)
    /\ UNCHANGED <<initialAsked, now, appHref>>
    /\ UNCHANGED roleRest
    /\ UNCHANGED nonAppVars

\* The profile query of a handleSession call resolves (lines 938-943, 947):
\* with the row, or with data null.
ProfileArrives(f, found) ==
    /\ AppAlive
    /\ fetches[f] = "inflight"
    /\ fetches' = [fetches EXCEPT ![f] = "done"]
    /\ setUser(IF found THEN <<profile>> ELSE <<>>)
    /\ appLoading' = FALSE
    /\ UNCHANGED <<initialAsked, events, now, appHref, signedOut>>
    /\ UNCHANGED roleRest
    /\ UNCHANGED nonAppVars

\* The profile query rejects: the catch calls handleLogout (lines 944-947).
ProfileThrows(f) ==
    /\ AppAlive
    /\ fetches[f] = "inflight"
    /\ fetches' = [fetches EXCEPT ![f] = "threw"]
    /\ logout' = IF logout = "no" THEN "signingOut" ELSE logout
    /\ appLoading' = FALSE
    /\ UNCHANGED <<appUser, initialAsked, events, now, lastActivity, armed, appHref,
                   signedOut, idleLogout>>
    /\ UNCHANGED roleRest
    /\ UNCHANGED nonAppVars

\* One of the listened events (mousedown, keydown, ...): updateActivity.
Activity ==
    /\ AppAlive
    /\ armed
    /\ lastActivity # <<[t |-> now, own |-> TRUE]>>
    /\ lastActivity' = <<[t |-> now, own |-> TRUE]>>
    /\ UNCHANGED <<appUser, appLoading, fetches, initialAsked, events, now, armed,
                   logout, appHref, signedOut, idleLogout>>
    /\ UNCHANGED roleRest
    /\ UNCHANGED nonAppVars

\* setInterval(checkIdleTimeout, CHECK_INTERVAL) fires and logs out.
IntervalLogsOut ==
    /\ AppAlive
    /\ armed
    /\ logout = "no"
    /\ checkIdleTimeout(lastActivity, now)
    /\ logout' = "signingOut"
    /\ idleLogout' = Append(idleLogout,
                       [t |-> lastActivity[1].t, own |-> lastActivity[1].own,
                        at |-> now, check |-> "interval"])
    /\ UNCHANGED <<appUser, appLoading, fetches, initialAsked, events, now,
                   lastActivity, armed, appHref, signedOut>>
    /\ UNCHANGED roleRest
    /\ UNCHANGED nonAppVars

\* The logout button of the layout.
LogoutClicked ==
    /\ AppAlive
    /\ appUser # <<>>
    /\ logout = "no"
    /\ logout' = "signingOut"
    /\ UNCHANGED <<appUser, appLoading, fetches, initialAsked, events, now,
                   lastActivity, armed, appHref, signedOut, idleLogout>>
    /\ UNCHANGED roleRest
    /\ UNCHANGED nonAppVars

\* handleLogout after its awaited signOut (lines 1008-1011).
LogoutDone ==
    /\ AppAlive
    /\ logout = "signingOut"
    /\ logout' = "done"
    /\ appUser' = <<>>
    /\ armed' = FALSE
    /\ lastActivity' = <<>>
    /\ appHref' = <<"portal?view=login">>
    /\ UNCHANGED <<appLoading, fetches, initialAsked, events, now, signedOut, idleLogout>>
    /\ UNCHANGED roleRest
    /\ UNCHANGED nonAppVars

\* An hour passes.
HourPasses ==
    /\ AppAlive
    /\ now < MaxNow
    /\ now' = now + 1
    /\ UNCHANGED <<appUser, appLoading, fetches, initialAsked, events, lastActivity,
                   armed, logout, appHref, signedOut, idleLogout>>
    /\ UNCHANGED roleRest
    /\ UNCHANGED nonAppVars

NextApp ==
    \/ \E s \in BOOLEAN : getInitialSession(s)
    \/ \E s \in BOOLEAN : AuthEvent(s)
    \/ \E f \in DOMAIN fetches, found \in BOOLEAN : ProfileArrives(f, found)
    \/ \E f \in DOMAIN fetches : ProfileThrows(f)
    \/ Activity
    \/ IntervalLogsOut
    \/ LogoutClicked
    \/ LogoutDone
    \/ HourPasses


(***************************************************************************)
(* Home (dashboard): fetchDashboardData (src/unnamed/part_001, 205-239)    *)
(*                                                                         *)
(* The four queries of the Promise.all read the same, unchanged store.     *)
(* The reminders query is modelled with the reminders page above; here     *)
(* the count of today's pending appointments and the agenda query are      *)
(* computed from one table of psych_appointments.  Dates are day numbers.  *)
(***************************************************************************)
today == 1

HomeAppointmentLimit == 5

MaxHomeRows == 6

HomeRowIds == 1..MaxHomeRows

\* What a row of psych_appointments can be: its owner, date and status.
HomeRowKinds ==
    {[psychologist_id |-> Me, date |-> d, status |-> "pending"] : d \in {0, today, 2}}
    \cup {[psychologist_id |-> Me, date |-> today, status |-> "cancelled"],
          [psychologist_id |-> Other, date |-> today, status |-> "pending"]}

homeRow(i, k) ==
    [id |-> i, psychologist_id |-> k.psychologist_id, date |-> k.date,
     time |-> 900 + i, status |-> k.status]

\* Line 225: select('id', { count: 'exact', head: true })
\* .eq('psychologist_id', user.id).eq('date', today).eq('status', 'pending')
apptToday(table) ==
    Cardinality({a \in table : /\ a.psychologist_id = Me
                               /\ a.date = today
                               /\ a.status = "pending"})

\* Line 226: select('*').eq('psychologist_id', user.id).eq('status', 'pending')
\* .order('date', { ascending: true }).order('time', { ascending: true }).limit(5)
selectAgenda(table) ==
    LET all == ordered({a \in table : /\ a.psychologist_id = Me
                                      /\ a.status = "pending"}, TRUE)
    IN SubSeq(all, 1, IF Len(all) < HomeAppointmentLimit
                      THEN Len(all) ELSE HomeAppointmentLimit)

\* Lines 238-239: appointments.filter(a => a.date === todayStr)
todayAppts == SelectSeq(appointments, LAMBDA a : a.date = today)

InitHome ==
    /\ \E present \in SUBSET HomeRowIds :
           \E kind \in [present -> HomeRowKinds] :
               homeTable = {homeRow(i, kind[i]) : i \in present}
    /\ stats = [todayAppointments |-> 0]
    /\ appointments = <<>>
    /\ homeLoaded = FALSE

IdleHome ==
    /\ homeTable = {}
    /\ stats = [todayAppointments |-> 0]
    /\ appointments = <<>>
    /\ homeLoaded = TRUE

\* Lines 219-236, run by the effect of lines 213-217 once the user is set.
fetchDashboardData ==
    /\ ~homeLoaded
    /\ stats' = [todayAppointments |-> apptToday(homeTable)]
    /\ appointments' = selectAgenda(homeTable)
    /\ homeLoaded' = TRUE
    /\ UNCHANGED homeTable
    /\ UNCHANGED nonHomeVars

NextHome == fetchDashboardData


(***************************************************************************)
(* AuthCallback (src/src/pages/AuthCallback.tsx): handleCallback           *)
(*                                                                         *)
(* The hash is a list of <<key, value>> pairs, as URLSearchParams reads    *)
(* it.  A parameter that is absent reads as null, modelled as <<>>; one    *)
(* that is present reads as <<value>>.                                     *)
(***************************************************************************)
MaxHashLen == 3

HashPairs ==
    { <<"access_token", "a1">>, <<"access_token", "">>,
      <<"refresh_token", "r1">>, <<"refresh_token", "">>,
      <<"returnTo", "/history">>, <<"returnTo", "">> }

Hashes == UNION {[1..n -> HashPairs] : n \in 0..MaxHashLen}

\* URLSearchParams.get: the value of the first pair with that key, or null.
get(params, key) ==
    LET hits == SelectSeq(params, LAMBDA p : p[1] = key)
    IN IF hits = <<>> THEN <<>> ELSE <<hits[1][2]>>

\* null and '' are falsy.
truthy(v) == v # <<>> /\ v[1] # ""

\* Line 15: params.get('returnTo') || '/'
returnTo(params) ==
    IF truthy(get(params, "returnTo")) THEN get(params, "returnTo")[1] ELSE "/"

\* Line 17: access_token && refresh_token
hasTokens(params) ==
    truthy(get(params, "access_token")) /\ truthy(get(params, "refresh_token"))

portalLogin == PortalUrl \o <<"?view=login">>

sessionError == PortalUrl \o <<"?view=login&error=session_error">>

InitCallback ==
    /\ hash \in Hashes
    /\ hashInUrl = TRUE
    /\ cbPc = "start"
    /\ setSessionCalls = 0
    /\ sessionResult = "none"
    /\ navigated = <<>>
    /\ cbHref = <<>>

IdleCallback ==
    /\ hash = <<>>
    /\ hashInUrl = FALSE
    /\ cbPc = "done"
    /\ setSessionCalls = 0
    /\ sessionResult = "none"
    /\ navigated = <<>>
    /\ cbHref = <<>>

\* Lines 9-19 and 32-34: up to the await of setSession, or the redirect of
\* the else branch.
handleCallback ==
    /\ cbPc = "start"
    /\ IF hasTokens(hash)
       THEN /\ setSessionCalls' = setSessionCalls + 1
            /\ cbPc' = "setSession"
            /\ UNCHANGED cbHref
       ELSE /\ cbHref' = Append(cbHref, portalLogin)
            /\ cbPc' = "done"
            /\ UNCHANGED setSessionCalls
    /\ UNCHANGED <<hash, hashInUrl, sessionResult, navigated>>
    /\ UNCHANGED nonCbVars

\* Lines 24-31 with the check of `error` left out.
SetSessionResolvesUnchecked(result) ==
    /\ cbPc = "setSession"
    /\ sessionResult' = result
    /\ IF result # "rejected"
       THEN /\ hashInUrl' = FALSE
            /\ navigated' = Append(navigated, [to |-> returnTo(hash), replace |-> TRUE])
            /\ UNCHANGED cbHref
       ELSE /\ cbHref' = Append(cbHref, sessionError)
            /\ UNCHANGED <<hashInUrl, navigated>>
    /\ cbPc' = "done"
    /\ UNCHANGED <<hash, setSessionCalls>>
    /\ UNCHANGED nonCbVars

\* Lines 19-31: setSession answers without an error ("ok"), answers with
\* one ("error", thrown at line 24) or rejects ("rejected"); both failures
\* end in the catch block.
SetSessionResolves(result) ==
    /\ cbPc = "setSession"
    /\ sessionResult' = result
    /\ IF result = "ok"
       THEN /\ hashInUrl' = FALSE
            /\ navigated' = Append(navigated, [to |-> returnTo(hash), replace |-> TRUE])
            /\ UNCHANGED cbHref
       ELSE /\ cbHref' = Append(cbHref, sessionError)
            /\ UNCHANGED <<hashInUrl, navigated>>
    /\ cbPc' = "done"
    /\ UNCHANGED <<hash, setSessionCalls>>
    /\ UNCHANGED nonCbVars

NextCallback ==
    \/ handleCallback
    \/ \E result \in {"ok", "error", "rejected"} : SetSessionResolves(result)

(***************************************************************************)
(* Specifications                                                          *)
(***************************************************************************)
InitAuth == InitGate /\ IdleCallback /\ IdleHome /\ IdleApp /\ IdleRoles /\ IdlePdf /\ IdleSearch /\ IdleReminders /\ IdleServer /\ IdleAppointments /\ IdleHistory

SpecAuth == InitAuth /\ [][NextAuth]_vars

InitPdfSpec == InitPdf /\ IdleGate /\ IdleCallback /\ IdleHome /\ IdleApp /\ IdleRoles /\ IdleSearch /\ IdleReminders /\ IdleServer /\ IdleAppointments /\ IdleHistory

SpecPdf == InitPdfSpec /\ [][NextPdf]_vars

InitSearchSpec == InitSearch /\ IdleGate /\ IdleCallback /\ IdleHome /\ IdleApp /\ IdleRoles /\ IdlePdf /\ IdleReminders /\ IdleServer /\ IdleAppointments /\ IdleHistory

SpecSearch == InitSearchSpec /\ [][NextSearch]_vars

InitRemindersSpec == InitReminders /\ IdleGate /\ IdleCallback /\ IdleHome /\ IdleApp /\ IdleRoles /\ IdlePdf /\ IdleSearch /\ IdleServer /\ IdleAppointments /\ IdleHistory

SpecReminders == InitRemindersSpec /\ [][NextReminders]_vars

InitServerSpec == InitServer /\ IdleGate /\ IdleCallback /\ IdleHome /\ IdleApp /\ IdleRoles /\ IdlePdf /\ IdleSearch /\ IdleReminders /\ IdleAppointments /\ IdleHistory

SpecServer == InitServerSpec /\ [][NextServer]_vars

\* The appointments of either backend: the hosted store behind Schedule and
\* NewAttention, or the local server.
InitAppointmentsSpec ==
    /\ IdleGate /\ IdleCallback /\ IdleHome /\ IdleApp /\ IdleRoles /\ IdlePdf /\ IdleSearch /\ IdleReminders /\ IdleHistory
    /\ \/ InitAppointments /\ IdleServer
       \/ IdleAppointments /\ InitServer

SpecAppointments == InitAppointmentsSpec /\ [][NextAppointments \/ NextServer]_vars

\* History and the export on either definition of generateAttentionPDF, or
\* the attentions of the local server.
InitHistorySpec ==
    /\ IdleGate /\ IdleCallback /\ IdleHome /\ IdleApp /\ IdleRoles /\ IdleSearch /\ IdleReminders /\ IdleAppointments
    /\ variant \in {"paginated", "legacy"}
    /\ att = NoAttention /\ pc = "idle" /\ doc = emptyDoc /\ sec = 1
    /\ lines = <<>> /\ li = 1 /\ totalPages = 0 /\ fp = 1 /\ saved = <<>>
    /\ \/ InitHistory /\ IdleServer
       \/ IdleHistory /\ InitServer

SpecHistory == InitHistorySpec /\ [][NextHistory \/ NextPdf \/ NextServer]_vars

\* The pages with handlers that change their list themselves: Reminders (with
\* Home), or History's list.
InitOptimisticSpec ==
    /\ IdleGate /\ IdleCallback /\ IdleHome /\ IdleApp /\ IdleRoles /\ IdlePdf /\ IdleSearch /\ IdleServer /\ IdleAppointments
    /\ \/ InitReminders /\ IdleHistory
       \/ IdleReminders /\ InitHistory

SpecOptimistic == InitOptimisticSpec /\ [][NextReminders \/ NextHistoryList]_vars

InitRolesSpec ==
    /\ InitRoles /\ IdleGate /\ IdleCallback /\ IdleHome /\ IdleApp /\ IdlePdf /\ IdleSearch /\ IdleReminders /\ IdleServer
    /\ IdleAppointments /\ IdleHistory

SpecRoles == InitRolesSpec /\ [][NextRoles]_vars

InitAppSpec ==
    /\ InitApp /\ IdleGate /\ IdleCallback /\ IdleHome /\ IdleRoles /\ IdlePdf /\ IdleSearch /\ IdleReminders
    /\ IdleServer /\ IdleAppointments /\ IdleHistory

SpecApp == InitAppSpec /\ [][NextApp]_vars


InitHomeSpec ==
    /\ InitHome /\ IdleGate /\ IdleCallback /\ IdleRoles /\ IdleApp /\ IdlePdf /\ IdleSearch
    /\ IdleReminders /\ IdleServer /\ IdleAppointments /\ IdleHistory

SpecHome == InitHomeSpec /\ [][NextHome]_vars


InitCallbackSpec ==
    /\ InitCallback /\ IdleGate /\ IdleHome /\ IdleRoles /\ IdleApp /\ IdlePdf /\ IdleSearch
    /\ IdleReminders /\ IdleServer /\ IdleAppointments /\ IdleHistory

SpecCallback == InitCallbackSpec /\ [][NextCallback]_vars

(***************************************************************************)
(* Claims about RequireAuth                                                *)
(***************************************************************************)
MinOf(S) == CHOOSE x \in S : \A y \in S : x <= y
MaxOf(S) == CHOOSE x \in S : \A y \in S : x >= y

\* s without its leading and trailing white space, by position.
CoreOf(s) ==
    LET idx == {i \in 1..Len(s) : ~IsSpace(s[i])}
    IN IF idx = {} THEN <<>> ELSE SubSeq(s, MinOf(idx), MaxOf(idx))

\* a and b are equal up to the case of their letters.
SameUpToCase(a, b) ==
    /\ Len(a) = Len(b)
    /\ \A i \in 1..Len(a) :
          \/ a[i] = b[i]
          \/ a[i] \in DOMAIN upperOf /\ upperOf[a[i]] = b[i]
          \/ b[i] \in DOMAIN upperOf /\ upperOf[b[i]] = a[i]

\* The role (missing = empty) equals one of the allowed roles, both
\* upper-cased and trimmed.
RoleMatches(role, allowed) ==
    \E i \in 1..Len(allowed) :
        SameUpToCase(CoreOf(allowed[i]),
                     CoreOf(IF role = NoRole THEN <<>> ELSE role))

\* C1: whenever a (live) check finds a session and the profile lookup returns
\* a profile, the gate shows the 403 view if and only if the normalized role
\* equals none of the normalized allowedRoles; otherwise it renders children.
C1_ForbiddenIffRoleNotAllowed ==
    [][\A c \in DOMAIN checks, r \in ProfileResults :
          (r.kind = "profile" /\ checks[c].isMounted /\ ProfileResolved(c, r))
          => IF RoleMatches(r.role, checks[c].allowedRoles)
             THEN View' = "children"
             ELSE View' = "403"]_vars

RECURSIVE decodeURIComponent(_)
decodeURIComponent(s) ==
    IF s = <<>> THEN <<>>
    ELSE IF Head(s) = "%" /\ Len(s) >= 3
    THEN LET code == SubSeq(s, 1, 3)
             ch == CHOOSE x \in {":", "/", "?", "=", "&", " ", "%"} :
                       PercentCode(x) = code
         IN <<ch>> \o decodeURIComponent(SubSeq(s, 4, Len(s)))
    ELSE <<Head(s)>> \o decodeURIComponent(Tail(s))

LoginPrefix == PortalUrl \o <<"?view=login&returnTo=">>

\* href is the portal login URL whose returnTo parameter is a URL-encoded
\* component that decodes to url.
IsLoginUrlReturningTo(h, url) ==
    /\ Len(h) >= Len(LoginPrefix)
    /\ SubSeq(h, 1, Len(LoginPrefix)) = LoginPrefix
    /\ LET e == SubSeq(h, Len(LoginPrefix) + 1, Len(h))
       IN /\ \A i \in 1..Len(e) : UriUnreserved(e[i]) \/ e[i] = "%"
          /\ decodeURIComponent(e) = url

\* C2: a check that finds no session while the gate is mounted redirects to
\* the portal login with returnTo = the encoded current origin + pathname +
\* search, and changes none of loading, forbidden, user.
C2_NoSessionRedirects ==
    [][\A c \in DOMAIN checks :
          (checks[c].isMounted /\ GetSessionResolved(c, "none"))
          => /\ IsLoginUrlReturningTo(href', Origin \o pathname \o search)
             /\ UNCHANGED <<loading, user, forbidden>>]_vars

C2_Witness ==
    /\ href # NoHref
    /\ search # <<>>
    /\ Len(checks) >= 2
    /\ checks[Len(checks)].outcome = "nosession"

\* C3: when the profile lookup of a (live) check fails (error, no row, or an
\* exception in a lookup), the gate stops the spinner and then renders
\* neither the 403 view nor its children.
C3_LookupFailureRendersNothing ==
    [][\A c \in DOMAIN checks :
          (/\ checks[c].isMounted
           /\ \/ LookupThrew(c)
              \/ \E r \in ProfileResults : r.kind # "profile" /\ ProfileResolved(c, r))
          => (loading' = FALSE /\ View' \notin {"403", "children"})]_vars

(***************************************************************************)
(* Claims about generateAttentionPDF                                       *)
(***************************************************************************)
Bottom == pageH - marginB

LastDraw(d, back) == d.draws[Len(d.draws) - back]

\* The step drew `kind` after a page-break check for `needed` mm with the
\* cursor at `cursor`: on the same page at the cursor if it fitted, else on
\* a new page, after the continuation header at 14, at 22.  `after` is the
\* number of draws the step made after that one.
DrawnAfterCheck(cursor, needed, kind, after) ==
    LET d == LastDraw(doc', after)
    IN /\ d.kind = kind
       /\ d.y + needed <= Bottom
       /\ IF cursor + needed <= Bottom
          THEN /\ doc'.pages = doc.pages
               /\ Len(doc'.draws) = Len(doc.draws) + after + 1
               /\ d.page = doc.page /\ d.y = cursor
          ELSE /\ doc'.pages = doc.pages + 1
               /\ Len(doc'.draws) = Len(doc.draws) + after + 2
               /\ LastDraw(doc', after + 1).kind = "continuation"
               /\ LastDraw(doc', after + 1).page = doc.pages + 1
               /\ LastDraw(doc', after + 1).y = 14
               /\ d.page = doc.pages + 1 /\ d.y = 14 + 8

\* C4: in the paginating generateAttentionPDF every section title, wrapped
\* line and the signature block is drawn after a page-break check, so that
\* y + needed <= pageH - marginB at the draw (needed = 12, 7, 30); when the
\* check fails a page is added, the continuation header is emitted on it and
\* the cursor is 22 at the draw.
C4_DrawsFollowPageCheck ==
    [][/\ pc = "section" => DrawnAfterCheck(doc.y + gapBefore(sec), 12, "title", 0)
       /\ pc = "lines" => DrawnAfterCheck(doc.y, 7, "line", 0)
       /\ pc = "signature" => DrawnAfterCheck(doc.y + 12, 30, "sigrule", 2)]_vars

\* A line did not fit under the previous one and was drawn at 22, right after
\* the continuation header of a new page.
C4_Witness ==
    /\ variant = "paginated"
    /\ \E i \in 1..(Len(doc.draws) - 1) :
          /\ doc.draws[i].kind = "continuation"
          /\ doc.draws[i + 1].kind = "line"
          /\ doc.draws[i + 1].y = 22
          /\ i > 1 /\ doc.draws[i - 1].kind = "line"

\* The texts of the draws of the given kinds, in drawing order.
TextsOf(ds, kinds) ==
    LET kept == SelectSeq(ds, LAMBDA d : d.kind \in kinds)
    IN [i \in 1..Len(kept) |-> kept[i].text]

\* Title and wrapped lines of the sections 1..k, in order.
RECURSIVE SectionTexts(_, _)
SectionTexts(a, k) ==
    IF k = 0 THEN <<>>
    ELSE SectionTexts(a, k - 1) \o <<sectionTitle(k)>>
             \o splitTextToSize(orDash(sectionField(a, k)), contentW)

IsPrefixOf(s, t) == Len(s) <= Len(t) /\ s = SubSeq(t, 1, Len(s))

\* C5: printSection draws every wrapped line of every section exactly once,
\* in the sections' order and in line order within a section, whatever page
\* breaks fall between them, and the page of successive draws never
\* decreases.
C5_LinesDrawnOnceInOrder ==
    variant = "paginated" =>
        LET body == SelectSeq(doc.draws, LAMBDA d : d.kind \in {"title", "line"})
            texts == TextsOf(doc.draws, {"title", "line"})
        IN /\ IsPrefixOf(texts, SectionTexts(att, 3))
           /\ pc \in {"signature", "count", "footer", "done"}
                 => texts = SectionTexts(att, 3)
           /\ \A i \in 1..(Len(body) - 1) : body[i].page <= body[i + 1].page

\* The export finished with a page break between two lines of one section.
C5_Witness ==
    /\ variant = "paginated" /\ pc = "done"
    /\ \E i \in 2..(Len(doc.draws) - 1) :
          /\ doc.draws[i].kind = "continuation"
          /\ doc.draws[i - 1].kind = "line"
          /\ doc.draws[i + 1].kind = "line"
          /\ doc.draws[i + 1].text # doc.draws[i - 1].text

\* C6: after layout the footer pass stamps exactly one footer on every page
\* p, reading p / N with N the final number of pages; no page is added
\* after N is read.
C6_OneFooterPerPage ==
    variant = "paginated" =>
        /\ pc \in {"footer", "done"} => totalPages = doc.pages
        /\ pc = "done" =>
              /\ Len(doc.stamps) = doc.pages
              /\ \A q \in 1..doc.pages :
                    /\ Cardinality({i \in 1..Len(doc.stamps) : doc.stamps[i].page = q}) = 1
                    /\ \A i \in 1..Len(doc.stamps) :
                          doc.stamps[i].page = q =>
                              doc.stamps[i].p = q /\ doc.stamps[i].n = doc.pages

C6_Witness ==
    /\ variant = "paginated" /\ pc = "done"
    /\ doc.pages >= 2
    /\ Len(doc.stamps) >= 2

\* Where the metadata table ended.
TableEnd(d) ==
    LET t == SelectSeq(d.draws, LAMBDA x : x.kind = "table") IN t[1].y

RECURSIVE SumLens(_)
SumLens(ss) == IF ss = <<>> THEN 0 ELSE Len(Head(ss)) + SumLens(Tail(ss))

\* The number of lines the three free texts wrap to.
WrappedLineCount(a, width) ==
    SumLens([k \in 1..3 |-> splitTextToSize(orDash(sectionField(a, k)), width)])

\* C7: for a record whose free text wraps to more lines than fit between
\* the metadata table and the bottom margin of the first page, the document
\* has more than one page and no text is drawn below the bottom margin, for
\* both definitions of generateAttentionPDF.
C7_LongTextPaginates ==
    (/\ pc = "done"
     /\ WrappedLineCount(att, IF variant = "paginated" THEN contentW ELSE legacyWrapW) * 7
            > Bottom - TableEnd(doc))
    => /\ doc.pages > 1
       /\ \A i \in 1..Len(doc.draws) :
             doc.draws[i].kind \in {"title", "line", "block"}
                 => doc.draws[i].y <= Bottom

EmptyTexts == {NoText, <<>>}

AllTextsEmpty(a) == \A k \in 1..3 : sectionField(a, k) \in EmptyTexts

RunsToUnderscore(name) ==
    LET positions == [i \in 1..Len(name) |-> i]
        kept == SelectSeq(positions,
                    LAMBDA i : ~IsSpace(name[i]) \/ i = 1 \/ ~IsSpace(name[i - 1]))
    IN [j \in 1..Len(kept) |-> IF IsSpace(name[kept[j]]) THEN "_" ELSE name[kept[j]]]

\* C9: the exported file name is 'Atencion_' + student_name with every
\* maximal run of white space replaced by one underscore + '_' + date +
\* '.pdf', for both definitions: it is determined by student_name and date
\* alone, whatever the other fields are.
C9_FileNameFromNameAndDate ==
    /\ pc = "done" =>
          saved = << <<"Atencion_">> \o RunsToUnderscore(att.student_name)
                     \o <<"_">> \o att.date \o <<".pdf">> >>
    /\ pc # "done" => saved = <<>>

C9_Witness ==
    /\ pc = "done"
    /\ \E i \in 1..(Len(att.student_name) - 1) :
          IsSpace(att.student_name[i]) /\ IsSpace(att.student_name[i + 1])
    /\ att.reason # NoText

(***************************************************************************)
(* Claims about the student search                                         *)
(***************************************************************************)
\* The maximal runs of characters of term that are not white space.
TokensOf(term) ==
    { SubSeq(term, i, j) : <<i, j>> \in
        { ij \in (1..Len(term)) \X (1..Len(term)) :
            /\ ij[1] <= ij[2]
            /\ \A k \in ij[1]..ij[2] : ~IsSpace(term[k])
            /\ ij[1] = 1 \/ IsSpace(term[ij[1] - 1])
            /\ ij[2] = Len(term) \/ IsSpace(term[ij[2] + 1]) } }

\* name contains token, case-insensitively.
NameContains(name, token) ==
    \E i \in 0..(Len(name) - Len(token)) :
        SameUpToCase(SubSeq(name, i + 1, i + Len(token)), token)

StudentHas(i, token) ==
    NameContains(first_name(i), token) \/ NameContains(last_name(i), token)

MatchingAny(term) == { i \in StudentIds : \E t \in TokensOf(term) : StudentHas(i, t) }
MatchingAll(term) == { i \in StudentIds : \A t \in TokensOf(term) : StudentHas(i, t) }

Capped(n) == IF n < ResultLimit THEN n ELSE ResultLimit

IsFetch(q) == q.op \in {"fetchAll", "fetchIncomplete"}
IsWrite(q) == q.op \in {"update", "delete"}

\* The store applied the update u, which sets is_completed = true.
MarkedComplete(u) ==
    /\ remReqs[u].op = "update"
    /\ remReqs[u].val
    /\ remReqs[u].at > 0

\* No other write to reminder id was applied by the store after the a-th
\* and before the b-th request it applied.
NoWriteBetween(id, a, b) ==
    \A w \in DOMAIN remReqs :
        ~(/\ IsWrite(remReqs[w])
          /\ remReqs[w].id = id
          /\ remReqs[w].at > a
          /\ remReqs[w].at < b)

\* Reminder id had not been deleted when the store applied its a-th request.
ExistedAt(id, a) ==
    \A w \in DOMAIN remReqs :
        ~(/\ remReqs[w].op = "delete"
          /\ remReqs[w].id = id
          /\ remReqs[w].at > 0
          /\ remReqs[w].at < a)

\* The fetch f shows reminder id as completed: the full list holds it with
\* the flag set, the list of incomplete reminders does not hold it.
ShowsCompleted(f, id) ==
    IF remReqs[f].op = "fetchAll"
    THEN <<id, TRUE>> \in remReqs[f].data /\ <<id, FALSE>> \notin remReqs[f].data
    ELSE id \notin idsOf(remReqs[f].data)

\* C11: once the store has applied a handler's update is_completed = true
\* of a reminder that exists, a fetch answered next (no other write to that
\* reminder in between) returns the reminder as completed; the dashboard's
\* re-fetch is issued only when the awaited update has been answered, and it
\* then does not contain the reminder.
C11_FetchAfterCompleteShowsFlag ==
    /\ \A u \in DOMAIN remReqs : \A f \in DOMAIN remReqs :
          ( /\ MarkedComplete(u)
            /\ ExistedAt(remReqs[u].id, remReqs[u].at)
            /\ IsFetch(remReqs[f])
            /\ remReqs[f].at > remReqs[u].at
            /\ NoWriteBetween(remReqs[u].id, remReqs[u].at, remReqs[f].at) )
          => ShowsCompleted(f, remReqs[u].id)
    /\ \A f \in DOMAIN remReqs :
          remReqs[f].from = "Home.refetch" =>
             LET u == remReqs[f].after
             IN /\ u \in 1..(f - 1)
                /\ remReqs[u].op = "update" /\ remReqs[u].val
                /\ ( /\ remReqs[u].at > 0
                     /\ remReqs[f].at > 0
                     /\ ExistedAt(remReqs[u].id, remReqs[u].at)
                     /\ NoWriteBetween(remReqs[u].id, remReqs[u].at, remReqs[f].at) )
                   => /\ remReqs[f].at > remReqs[u].at
                      /\ remReqs[u].id \notin idsOf(remReqs[f].data)

\* A dashboard re-fetch answered after its update was applied, with another
\* incomplete reminder still listed.
C11_Witness ==
    \E f \in DOMAIN remReqs :
        /\ remReqs[f].from = "Home.refetch"
        /\ remReqs[f].status = "done"
        /\ MarkedComplete(remReqs[f].after)
        /\ remReqs[f].data # {}
        /\ homeList = idsOf(remReqs[f].data)
        /\ remReqs[remReqs[f].after].id \notin homeList

(***************************************************************************)
(* Claims about appointments and the local server                          *)
(***************************************************************************)
appointmentById(table, id) ==
    LET k == CHOOSE k \in DOMAIN table : table[k].id = id IN table[k]

\* C12: an appointment that was cancelled (PATCH on the local server,
\* Schedule.updateStatus on the hosted store) is never deleted: from then on
\* it is in the table under the same id with status 'cancelled', and no
\* answer of GET /api/appointments contains it.
C12_CancelledKeptOutOfPending ==
    /\ \A id \in cancelledIds :
          /\ id \in idsIn(db.appointments)
          /\ appointmentById(db.appointments, id).status = "cancelled"
          /\ lastCall.endpoint = "GET /api/appointments"
                => \A k \in DOMAIN lastCall.rows : lastCall.rows[k].id # id
    /\ \A s \in Sessions : \A k \in DOMAIN apptReqs[s] :
          LET q == apptReqs[s][k]
          IN (q.from = "Schedule.updateStatus" /\ q.status \in {"applied", "done"})
             => /\ q.id \in idsIn(apptStore)
                /\ appointmentById(apptStore, q.id).status = "cancelled"

Statuses == {"pending", "completed", "cancelled"}

\* In the step from table `old` to table `new`, every new row is pending and
\* a status changes only from pending to completed or cancelled.
LegalStatusStep(old, new) ==
    /\ \A id \in idsIn(new) \ idsIn(old) :
          appointmentById(new, id).status = "pending"
    /\ \A id \in idsIn(new) \cap idsIn(old) :
          LET before == appointmentById(old, id).status
              after == appointmentById(new, id).status
          IN /\ after \in Statuses
             /\ before # after => before = "pending" /\ after \in {"completed", "cancelled"}

\* C14: every appointment is created pending, and its status only ever goes
\* from pending to completed or from pending to cancelled.
C14_StatusOnlyLeavesPending ==
    [][ /\ LegalStatusStep(db.appointments, db'.appointments)
        /\ LegalStatusStep(apptStore, apptStore') ]_vars

\* C17: a start of the server against an existing database file inserts no
\* row into any table.
C17_SeedsOnFirstRunOnly ==
    runs > 1 => \A t \in Tables : lastSeeded[t] = 0

\* The demo rows of table t as the startup code inserts them into d.
demoRows(d, t) ==
    CASE t = "reminders" -> initialReminders(adminId(d))
      [] t = "appointments" -> appts(adminId(d))
      [] t = "attentions" -> examples(adminId(d))
      [] OTHER -> <<>>

\* C17 as amended: a start of the server against an existing database file
\* leaves every table that holds a row as it is, and fills a table that
\* holds no row with its demo rows under new ids; the first run seeds the
\* user and all three tables.
C17_SeedsEmptyTablesOnly ==
    /\ [](runs = 1 => lastSeeded = [users |-> 1, reminders |-> 2,
                                    appointments |-> 3, attentions |-> 4])
    /\ [][ runs' = runs + 1 =>
             /\ db'.users = db.users
             /\ \A t \in Tables \ {"users"} :
                   /\ lastSeeded'[t] = Len(db'[t]) - Len(db[t])
                   /\ Len(db[t]) > 0 => db'[t] = db[t]
                   /\ Len(db[t]) = 0 =>
                         /\ Len(db'[t]) = Len(demoRows(db, t))
                         /\ \A k \in DOMAIN db'[t] :
                               /\ db'[t][k].id = db.nextId[t] + k - 1
                               /\ db'[t][k] = [id |-> db'[t][k].id] @@ demoRows(db, t)[k] ]_vars

\* A restart after API calls that found rows in every table and inserted
\* nothing.
C17_Witness ==
    /\ runs > 1
    /\ srvCalls >= 2
    /\ \A t \in Tables : lastSeeded[t] = 0
    /\ Len(db.attentions) # 4

\* The step in which the handler of session s gets { error } for its k-th
\* request.
FailsNow(s, k) ==
    /\ apptReqs[s][k].status = "sent"
    /\ apptReqs'[s][k].status = "failed"

\* The attention that request q inserted is stored.
AttentionStored(q) ==
    \E i \in DOMAIN attStore :
        [attStore[i] EXCEPT !.id = 0] = q.row

\* C15: when handleSubmit came from an appointment, its insert succeeded and
\* its status update fails, the step that handles the failure changes no
\* table (the inserted attention stays, the appointment keeps its status),
\* issues no further request, alerts nothing and navigates to the history.
C15_FailedCompletionIsSilent ==
    [][ \A s \in Sessions : \A k \in DOMAIN apptReqs[s] :
          (FailsNow(s, k) /\ apptReqs[s][k].from = "NewAttention.completed")
          => LET i == apptReqs[s][k].after
             IN /\ apptReqs[s][i].op = "insertAttention"
                /\ apptReqs[s][i].status = "done"
                /\ AttentionStored(apptReqs[s][i])
                /\ attStore' = attStore
                /\ apptStore' = apptStore
                /\ Len(apptReqs'[s]) = Len(apptReqs[s])
                /\ sess'[s].alerted = sess[s].alerted
                /\ sess'[s].page = "history"
                /\ ~sess'[s].submitting ]_vars

\* The update failed, the attention is stored, the appointment it came from
\* is still pending and session 1 is on the history page.
C15_Witness ==
    \E k \in DOMAIN apptReqs[1] :
        /\ apptReqs[1][k].from = "NewAttention.completed"
        /\ apptReqs[1][k].status = "failed"
        /\ AttentionStored(apptReqs[1][apptReqs[1][k].after])
        /\ appointmentById(apptStore, apptReqs[1][k].id).status = "pending"
        /\ sess[1].page = "history"
        /\ sess[1].alerted = {}

sameSlot(a, b) ==
    a.date = b.date /\ a.time = b.time /\ a.psychologist_id = b.psychologist_id

\* C16: an insert of an appointment is accepted whatever slots are taken:
\* on the local server every POST for a known user answers success and adds
\* the row as pending under a new id; on the hosted store every insert the
\* store applies adds the row as pending; the handler is told nothing.
C16_NoSlotUniqueness ==
    [][ /\ ( /\ srvCalls' = srvCalls + 1
             /\ lastCall'.endpoint = "POST /api/appointments"
             /\ knownUser(db, lastCall'.body.psychologist_id) )
           => /\ lastCall'.code = 200
              /\ lastCall'.id \notin idsIn(db.appointments)
              /\ db'.appointments = Append(db.appointments,
                    [id |-> lastCall'.id, status |-> "pending"] @@ lastCall'.body)
        /\ \A s \in Sessions : \A k \in DOMAIN apptReqs[s] :
             ( /\ apptReqs[s][k].op = "insertAppointment"
               /\ apptReqs[s][k].status = "sent"
               /\ apptReqs'[s][k].status = "applied" )
             => /\ Len(apptStore') = Len(apptStore) + 1
                /\ SubSeq(apptStore', 1, Len(apptStore)) = apptStore
                /\ LET new == apptStore'[Len(apptStore')]
                   IN /\ new.id \notin idsIn(apptStore)
                      /\ new.status = "pending"
                      /\ [new EXCEPT !.id = 0] = [id |-> 0] @@ apptReqs[s][k].row
        /\ \A s \in Sessions : sess'[s].alerted # sess[s].alerted
             => \E k \in DOMAIN apptReqs[s] :
                   FailsNow(s, k) /\ apptReqs[s][k].op = "insertAttention" ]_vars

\* Both sessions have scheduled the slot that appointment 1 holds, the
\* store has applied both inserts, session 1 has its answer, and the three
\* rows are pending.
C16_Witness ==
    /\ \A s \in Sessions : \E k \in DOMAIN apptReqs[s] :
          /\ apptReqs[s][k].op = "insertAppointment"
          /\ apptReqs[s][k].status \in {"applied", "done"}
    /\ \E k \in DOMAIN apptReqs[1] :
          apptReqs[1][k].op = "insertAppointment" /\ apptReqs[1][k].status = "done"
    /\ Len(apptStore) = 3
    /\ \A k \in DOMAIN apptStore :
          apptStore[k].status = "pending" /\ sameSlot(apptStore[k], apptStore[1])
    /\ \A s \in Sessions : sess[s].alerted = {}

\* C20: the update to 'completed' is issued only from the continuation of
\* an attention insert that was answered without error, whose row is then
\* stored; when the insert fails, the step that handles the failure issues
\* no request, alerts the error and stays on the form.
C20_CompletedOnlyAfterInsert ==
    /\ [](\A s \in Sessions : \A k \in DOMAIN apptReqs[s] :
            (apptReqs[s][k].op = "updateStatus" /\ apptReqs[s][k].val = "completed")
            => LET i == apptReqs[s][k].after
               IN /\ i \in 1..(k - 1)
                  /\ apptReqs[s][i].op = "insertAttention"
                  /\ apptReqs[s][i].status = "done"
                  /\ AttentionStored(apptReqs[s][i]))
    /\ [][ \A s \in Sessions : \A k \in DOMAIN apptReqs[s] :
             (FailsNow(s, k) /\ apptReqs[s][k].op = "insertAttention")
             => /\ Len(apptReqs'[s]) = Len(apptReqs[s])
                /\ apptStore' = apptStore
                /\ sess'[s].alerted = sess[s].alerted \cup {k}
                /\ sess'[s].page = sess[s].page
                /\ ~sess'[s].submitting ]_vars

\* An appointment completed through the handler, and a failed insert that
\* was alerted.
C20_Witness ==
    /\ \E k \in DOMAIN apptReqs[1] :
          /\ apptReqs[1][k].from = "NewAttention.completed"
          /\ apptReqs[1][k].status = "done"
          /\ appointmentById(apptStore, apptReqs[1][k].id).status = "completed"
    /\ sess[1].alerted # {}

(***************************************************************************)
(* C18: when the record's date string is not a valid date, the export      *)
(* throws in the step that builds the metadata table: only the header has  *)
(* been drawn, no table, section title, text line, signature or footer is  *)
(* ever drawn, doc.save is never reached (no file), and the export stays   *)
(* thrown.                                                                 *)
(***************************************************************************)
C18_InvalidDateThrowsBeforeTable ==
    /\ [](~isValidDate(att.date) /\ pc \notin {"idle", "start"}
            => /\ pc = "thrown"
               /\ saved = <<>>
               /\ doc.stamps = <<>>
               /\ \A i \in 1..Len(doc.draws) : doc.draws[i].kind = "header")
    /\ [][~isValidDate(att.date) /\ pc = "thrown" => pc' = "thrown"]_vars

\* An export with a date that does not parse has thrown in the table step.
C18_Witness ==
    /\ ~isValidDate(att.date)
    /\ att.date # <<>>
    /\ variant = "paginated"
    /\ pc = "thrown"
    /\ Len(doc.draws) = 1

(***************************************************************************)
(* C19: at most one debounce timeout is scheduled at any time and it is    *)
(* for the current search term (a change of the term clears the one        *)
(* scheduled before); a query is issued only by a timeout whose 300 ms     *)
(* have passed, for the unchanged term, of at least 2 characters; a        *)
(* timeout firing for a shorter term clears the list and issues nothing;   *)
(* a request in flight is untouched by a change of the term and its        *)
(* response is applied to the list when it arrives.                        *)
(***************************************************************************)
C19_DebounceCancelsScheduledOnly ==
    /\ [](/\ Cardinality(timer) <= 1
           /\ \A tm \in timer : tm.term = searchTerm /\ tm.left \in {0, DebounceMs})
    /\ [][/\ Len(requests') >= Len(requests)
          /\ \A r \in DOMAIN requests :
                /\ requests'[r].term = requests[r].term
                /\ requests'[r].params = requests[r].params
                /\ requests[r].status # "inflight"
                      => requests'[r].status = requests[r].status
                /\ requests[r].status = "inflight" /\ requests'[r].status = "ok"
                      => /\ students' \in limited(selectedRows(requests[r].params))
                         /\ shownFrom' = r
          /\ Len(requests') > Len(requests)
                => /\ Len(requests') = Len(requests) + 1
                   /\ searchTerm' = searchTerm
                   /\ Len(searchTerm) >= 2
                   /\ requests'[Len(requests')] =
                         [term |-> searchTerm, params |-> buildQuery(searchTerm),
                          status |-> "inflight"]
                   /\ [term |-> searchTerm, left |-> 0] \in timer
                   /\ timer' = {}
          /\ searchTerm' # searchTerm
                => /\ requests' = requests
                   /\ timer' = scheduled(searchTerm')
          /\ (\E tm \in timer : /\ tm \notin timer' /\ searchTerm' = searchTerm
                               /\ tm.left = 0 /\ Len(tm.term) < 2)
                => students' = {} /\ requests' = requests
          ]_vars

\* The response of a request issued for an earlier term is displayed while a
\* timeout for the changed term is scheduled.
C19_Witness ==
    /\ \E r \in DOMAIN requests :
          /\ requests[r].status = "ok"
          /\ shownFrom = r
          /\ requests[r].term # searchTerm
          /\ students # {}
    /\ timer = scheduled(searchTerm)
    /\ Len(searchTerm) >= 2

(***************************************************************************)
(* C13: a deleted attention record is in the result of no later history    *)
(* fetch (hosted store: a fetch the store answers after it applied the     *)
(* delete; local server: a GET /api/attentions after the DELETE, ids are   *)
(* never reused), and an export started on a fetched copy runs on that     *)
(* copy and completes with doc.save, whatever the store does to the row    *)
(* before or during the export.                                            *)
(***************************************************************************)
DeletedAttentions ==
    {histReqs[d].id : d \in {k \in DOMAIN histReqs :
        histReqs[k].op = "delete" /\ histReqs[k].stage \in {"applied", "done"}}}

C13_DeletedGoneExportUnaffected ==
    /\ []( /\ histStore \cap DeletedAttentions = {}
           /\ \A i \in DOMAIN db.attentions :
                 db.attentions[i].id < db.nextId["attentions"]
           /\ histOpen /\ pc # "idle"
                 => /\ \E id \in AttentionIds : att = spread(storedAttention(id))
                    /\ pc # "thrown"
                    /\ pc = "done" => saved = <<fileName(att)>>
                    /\ pc # "done" => ENABLED NextPdf)
    /\ [][ /\ \A k \in DOMAIN histReqs :
                 histReqs[k].op = "fetch" /\ histReqs[k].stage = "sent"
                     /\ histReqs'[k].stage = "applied"
                 => {a.id : a \in histReqs'[k].data} \cap DeletedAttentions = {}
           /\ pc # "idle" => att' = att
           /\ lastCall'.endpoint = "DELETE /api/attentions/:id" /\ srvCalls' # srvCalls
                 => lastCall'.id \notin idsIn(db'.attentions)
           /\ lastCall'.endpoint = "GET /api/attentions" /\ srvCalls' # srvCalls
                 => {lastCall'.rows[i].id : i \in DOMAIN lastCall'.rows}
                       \subseteq idsIn(db.attentions)
           /\ db'.nextId["attentions"] >= db.nextId["attentions"]
           /\ \A id \in idsIn(db'.attentions) \ idsIn(db.attentions) :
                 id >= db.nextId["attentions"]
          ]_vars

\* The export of a fetched copy has saved its file although the store had
\* deleted the row, and a fetch answered since does not return the row.
C13_Witness ==
    /\ pc = "done"
    /\ saved = <<fileName(att)>>
    /\ \E id \in DeletedAttentions :
          /\ att = spread(storedAttention(id))
          /\ \E f \in DOMAIN histReqs :
                /\ histReqs[f].op = "fetch"
                /\ histReqs[f].stage = "done"
                /\ id \notin {a.id : a \in histReqs[f].data}
                /\ histReqs[f].data # {}

(***************************************************************************)
(* C21: when the store write of Reminders.toggleComplete,                  *)
(* Reminders.handleDelete or History.handleDelete fails, the handler's     *)
(* continuation changes nothing but what it does on success (toggle: the   *)
(* flipped flag stays; delete: the row leaves the list), issues no request *)
(* and leaves the store alone; while no other write to that row is made    *)
(* and the page does not fetch again, the list shows the flipped flag      *)
(* (or lacks the row) and the store holds the old flag (or the row).       *)
(***************************************************************************)
\* Request r of the reminders log is a failed write of handler h, no other
\* write to its row was requested and the Reminders page has not fetched
\* again since the fetch of its mount (request 2) filled the list.
OnlyFailedWrite(r, h) ==
    /\ remReqs[r].from = h
    /\ remReqs[r].status = "failed"
    /\ \A o \in DOMAIN remReqs :
          /\ o # r /\ remReqs[o].op \in {"update", "delete"} => remReqs[o].id # remReqs[r].id
          /\ remReqs[o].from = "Reminders.mount" => o = 2

\* The same for a failed delete k of History.
OnlyFailedDelete(k) ==
    /\ histReqs[k].op = "delete"
    /\ histReqs[k].stage = "failed"
    /\ \A o \in DOMAIN histReqs :
          /\ o # k /\ histReqs[o].op = "delete" => histReqs[o].id # histReqs[k].id
          /\ histReqs[o].op # "fetch"

C21_FailedWriteLeavesListAhead ==
    /\ []( /\ \A r \in DOMAIN remReqs :
                 /\ OnlyFailedWrite(r, "Reminders.toggleComplete")
                       => /\ <<remReqs[r].id, remReqs[r].val>> \in pageList
                          /\ remStore[remReqs[r].id].is_completed = ~remReqs[r].val
                 /\ OnlyFailedWrite(r, "Reminders.handleDelete")
                       => /\ remReqs[r].id \notin idsOf(pageList)
                          /\ remStore[remReqs[r].id].exists
           /\ \A k \in DOMAIN histReqs :
                 OnlyFailedDelete(k)
                       => /\ histReqs[k].id \notin {a.id : a \in attentions}
                          /\ histReqs[k].id \in histStore )
    /\ [][ /\ \A r \in DOMAIN remReqs :
                 remReqs[r].status = "rejected" /\ remReqs'[r].status = "failed"
                     /\ remReqs[r].from \in {"Reminders.toggleComplete",
                                              "Reminders.handleDelete"}
                 => /\ remStore' = remStore
                    /\ homeList' = homeList
                    /\ remReqs' = [remReqs EXCEPT ![r].status = "failed"]
                    /\ pageList' = IF remReqs[r].op = "delete"
                                   THEN {row \in pageList : row[1] # remReqs[r].id}
                                   ELSE pageList
           /\ \A k \in DOMAIN histReqs :
                 histReqs[k].op = "delete" /\ histReqs[k].stage = "sent"
                     /\ histReqs'[k].stage = "failed"
                 => /\ histStore' = histStore
                    /\ histReqs' = [histReqs EXCEPT ![k].stage = "failed"]
                    /\ attentions' = {a \in attentions : a.id # histReqs[k].id}
          ]_<<remVars, histVars>>

\* A failed toggle left the page showing a flag the store does not hold.
C21_Witness ==
    \E r \in DOMAIN remReqs :
        /\ OnlyFailedWrite(r, "Reminders.toggleComplete")
        /\ <<remReqs[r].id, remReqs[r].val>> \in pageList
        /\ remStore[remReqs[r].id].is_completed # remReqs[r].val

(***************************************************************************)
(* C22: once the signature block is drawn it consists of one rule, one     *)
(* label and one name, in this order and as the last draws of the          *)
(* document, all on the last page and at y <= pageH - marginB; what is     *)
(* added afterwards are footer stamps only.                                *)
(***************************************************************************)
SignatureKinds == <<"sigrule", "siglabel", "signame">>

C22_SignatureLastAndInsideMargin ==
    pc \in {"count", "footer", "save", "done"} =>
        LET n == Len(doc.draws)
        IN /\ n >= 3
           /\ \A j \in 1..3 :
                 /\ doc.draws[n - 3 + j].kind = SignatureKinds[j]
                 /\ doc.draws[n - 3 + j].page = doc.pages
                 /\ doc.draws[n - 3 + j].y <= pageH - marginB
           /\ \A i \in 1..n :
                 /\ doc.draws[i].page <= doc.pages
                 /\ i <= n - 3 =>
                       \A j \in 1..3 : doc.draws[i].kind # SignatureKinds[j]

\* The export has finished with the signature moved to a new page by its
\* page-break check.
C22_Witness ==
    /\ pc = "done"
    /\ variant = "paginated"
    /\ LET n == Len(doc.draws)
       IN /\ n >= 5
          /\ doc.draws[n - 3].kind = "continuation"
          /\ doc.draws[n - 2].kind = "sigrule"
          /\ doc.draws[n - 2].y = 22
          /\ doc.draws[n - 4].page = doc.pages - 1

(***************************************************************************)
(* C23: only the check started last, while the gate is mounted, has        *)
(* isMounted true; a step that changes loading, forbidden, user or the     *)
(* location (a redirect) is the resolution of a lookup of that check.  A   *)
(* check whose effect was cleaned up changes none of them.                 *)
(***************************************************************************)
C23_StaleCheckHasNoEffect ==
    /\ [](\A c \in DOMAIN checks :
             checks[c].isMounted => c = Len(checks) /\ gateMounted)
    /\ [][<<loading, forbidden, user, href>>' # <<loading, forbidden, user, href>>
            => LET c == Len(checks)
               IN /\ c > 0
                  /\ gateMounted
                  /\ checks[c].isMounted
                  /\ checks[c].pc # "done"
                  /\ checks'[c].pc = "done"
                  /\ \A o \in 1..(c - 1) : checks'[o] = checks[o]]_vars

\* The first check got its profile after its effect was cleaned up: the gate
\* still shows the spinner and waits for the second check.
C23_Witness ==
    /\ Len(checks) = 2
    /\ checks[1].pc = "done" /\ checks[1].outcome = "profile"
    /\ ~checks[1].isMounted
    /\ checks[2].pc # "done"
    /\ loading /\ ~forbidden /\ user = NoProfile /\ href = NoHref

(***************************************************************************)
(* C24: a user whom the gate admits because the normalized role is the     *)
(* normalized PSICOLOGA gets the psychologist routes from MainApp, and     *)
(* History's fetch returns only attentions whose psychologist_id is the    *)
(* user's id.                                                              *)
(***************************************************************************)
AdmittedAsPsicologa ==
    /\ gateView = "children"
    /\ normalizeRole(profile.role) = trim(toUpperCase(PSICOLOGA))

C24_AdmittedPsicologaIsPsychologist ==
    AdmittedAsPsicologa =>
        /\ routes # {} => routes = PsychologistRoutes
        /\ historyRows # <<>> =>
              \A a \in historyRows[1] : a.psychologist_id = profile.id

(***************************************************************************)
(* C25: every logout by the idle check is for a timestamp this session     *)
(* wrote, more than IDLE_TIMEOUT old; in particular the check run when     *)
(* the user state is set never logs out on a timestamp that an earlier     *)
(* session left in local storage.                                          *)
(***************************************************************************)
C25_IdleLogoutOnlyAfterOwnIdleTime ==
    \A i \in DOMAIN idleLogout :
        /\ idleLogout[i].own
        /\ idleLogout[i].at - idleLogout[i].t > IDLE_TIMEOUT

(***************************************************************************)
(* C26: after a session event without a user was handled, App's user is    *)
(* null until a later event with a session arrives.                        *)
(***************************************************************************)
C26_SignedOutStaysNull ==
    signedOut => appUser = <<>>

(***************************************************************************)
(* C27: when no search request is in flight and no timeout is scheduled,   *)
(* and the latest request was for the current term and succeeded, the      *)
(* list shown is the answer to that request; with an empty term (as after  *)
(* the reset on reopen) the list is empty.                                 *)
(***************************************************************************)
SearchSettled ==
    /\ timer = {}
    /\ \A r \in DOMAIN requests : requests[r].status # "inflight"

C27_LatestQueryWins ==
    SearchSettled =>
        /\ /\ requests # <<>>
           /\ requests[Len(requests)].term = searchTerm
           /\ requests[Len(requests)].status = "ok"
           => shownFrom = Len(requests)
        /\ searchTerm = <<>> => students = {}

(***************************************************************************)
(* Claims about the dashboard                                              *)
(***************************************************************************)
\* C28: once fetchDashboardData has completed against an unchanged store,
\* the agenda list of today holds exactly the psychologist's pending
\* appointments dated today, so its length equals the todayAppointments
\* counter.
C28_TodayListMatchesCounter ==
    homeLoaded =>
        /\ {todayAppts[k] : k \in DOMAIN todayAppts}
               = {a \in homeTable : /\ a.psychologist_id = Me
                                    /\ a.date = today
                                    /\ a.status = "pending"}
        /\ Len(todayAppts) = stats.todayAppointments

\* C29: on the local server GET /api/attentions answers with exactly the
\* stored attentions, once each, ordered by date then time descending, and
\* GET /api/stats reports totalAttentions equal to the length of that list.
C29_AttentionsListedAndCounted ==
    /\ lastCall.endpoint = "GET /api/attentions" =>
           /\ {lastCall.rows[k] : k \in DOMAIN lastCall.rows} = rowsOf(db.attentions)
           /\ Len(lastCall.rows) = Len(db.attentions)
           /\ \A i, j \in DOMAIN lastCall.rows :
                  i < j => comesBefore(lastCall.rows[j], lastCall.rows[i])
    /\ lastCall.endpoint = "GET /api/stats" =>
           lastCall.rows[1].totalAttentions = Len(getAttentions(db))

(***************************************************************************)
(* Claims about AuthCallback                                               *)
(***************************************************************************)
\* C30: a callback ends in exactly one outcome.  With a token missing it
\* redirects to the portal login and never calls setSession; with both
\* present it navigates (replace) to returnTo, '/' by default, only after
\* setSession succeeded and the hash left the URL; when setSession fails it
\* redirects to the portal login with error=session_error and never
\* navigates.
C30_CallbackHasOneOutcome ==
    /\ Len(navigated) + Len(cbHref) = (IF cbPc = "done" THEN 1 ELSE 0)
    /\ ~hasTokens(hash) =>
           /\ setSessionCalls = 0
           /\ navigated = <<>>
           /\ cbPc = "done" => cbHref = <<portalLogin>>
    /\ navigated # <<>> =>
           /\ hasTokens(hash)
           /\ sessionResult = "ok"
           /\ ~hashInUrl
           /\ navigated[1].replace
           /\ navigated[1].to =
                  (IF \E k \in DOMAIN hash : /\ hash[k][1] = "returnTo"
                                             /\ \A j \in 1..(k-1) : hash[j][1] # "returnTo"
                                             /\ hash[k][2] # ""
                   THEN "/history" ELSE "/")
    /\ hasTokens(hash) /\ cbPc = "done" =>
           /\ setSessionCalls = 1
           /\ sessionResult = "ok" => navigated # <<>>
           /\ sessionResult \in {"error", "rejected"} =>
                  cbHref = <<sessionError>> /\ navigated = <<>>

C30_Witness ==
    /\ cbPc = "done"
    /\ sessionResult = "ok"
    /\ get(hash, "returnTo") = <<"">>
    /\ navigated = <<[to |-> "/", replace |-> TRUE]>>

====
